---- MODULE Spec2Model ----
(***************************************************************************)
(* State-machine model of the ecosystem simulation core: the World         *)
(* container (models/world.py), tiles (models/tile.py), plants             *)
(* (models/plant.py), creatures (models/creature.py), the plant spawner    *)
(* (services/plant_spawner.py) and the creature manager                    *)
(* (services/creature_manager.py).                                         *)
(*                                                                         *)
(* Energy is a float in the source whose every value is a multiple of 0.5  *)
(* (50.0 at construction, -0.5 per tick, +20 per plant, capped at 100);    *)
(* the model stores it in halves, so energy = 100 here is 50.0 there.      *)
(* update_creatures is one uninterruptible handler; the model walks its    *)
(* two loops one creature at a time under a program counter, and no other  *)
(* operation is enabled until the handler has returned (pc = "idle").      *)
(***************************************************************************)
EXTENDS Integers, Sequences, FiniteSets, TLC

VARIABLES grid, plants, creatures, simulation_ticks, pc, idx, processed_pairs,
          ticks_run, factory, terrain, probe, app

vars == <<grid, plants, creatures, simulation_ticks, pc, idx, processed_pairs,
          ticks_run, factory, terrain, probe, app>>

\* the terrain generator, its generation in progress, the call under test of
\* the specifications that exercise one function on drawn inputs, and the
\* SimulationApp of main.py
harness == <<factory, terrain, probe, app>>

---------------------------------------------------------------------------
(* Bounds of the model *)

GRID_WIDTH == 4
GRID_HEIGHT == 2
max_plants == 2
max_creatures == 3
MaxSeeded == 2
MaxTicks == 2
MaxWorldTicks == 1
MaxLoneTicks == 101
MaxCrowdTicks == 1

(* Program constants *)

PLANTS_TO_GROW == 5
PLANTS_TO_REPRODUCE == 10
REPRODUCTION_RANGE == 3
MAX_AGE == 1000
MOVEMENT_SPEED == 1
ENERGY_LOSS_PER_TICK == 1
ENERGY_FROM_PLANT == 20
MAX_ENERGY == 100
STARVATION_THRESHOLD == 0
INITIAL_ENERGY == 50
reproduction_cooldown_max == 50
search_radius == 15
BASE_SPAWN_PROBABILITY == 800
FERTILITY_SPAWN_MULTIPLIER == 3

\* energy is stored in halves of an energy point
Halves(e) == 2 * e

---------------------------------------------------------------------------
(* Helpers *)

Abs(n) == IF n < 0 THEN -n ELSE n
Min(a, b) == IF a <= b THEN a ELSE b
Max(a, b) == IF a >= b THEN a ELSE b

Cells == (0 .. GRID_WIDTH - 1) \X (0 .. GRID_HEIGHT - 1)

None == [kind |-> "none"]

Manhattan(x1, y1, x2, y2) == Abs(x1 - x2) + Abs(y1 - y2)

\* the least element of a non-empty set of list positions
MinOf(S) == CHOOSE i \in S : \A j \in S : i <= j

\* Python's min(seq, key=Key) over the indices in S: the first minimal one
ArgMinFirst(S, Key(_)) ==
    CHOOSE i \in S : \A j \in S : Key(i) < Key(j) \/ (Key(i) = Key(j) /\ i <= j)

RemoveAt(s, i) == SubSeq(s, 1, i - 1) \o SubSeq(s, i + 1, Len(s))

---------------------------------------------------------------------------
(* Tiles: models/tile.py *)

WaterTile == [kind |-> "water", fertility |-> 0, has_plant |-> FALSE]

\* fertility in tenths, clamped to [0, 1] by the constructor
LandTile(f) == [kind |-> "land", fertility |-> Max(0, Min(10, f)), has_plant |-> FALSE]

can_support_plant(t) ==
    IF t.kind = "water" THEN FALSE ELSE ~t.has_plant

\* strategies/spawn_probability.py. Probabilities are in units of 1/10000. The
\* strategies read BASE_SPAWN_PROBABILITY and FERTILITY_SPAWN_MULTIPLIER from
\* the config module at each call; base and mult are those two values.

\* FertilityBasedStrategy without the upper clamp
FertilityBasedStrategy_unclamped(t, base, mult) ==
    IF ~can_support_plant(t) THEN 0
    ELSE IF t.kind # "land" THEN 0
    ELSE (base * (10 + t.fertility * mult)) \div 10

FertilityBasedStrategy(t, base, mult) ==
    IF ~can_support_plant(t) THEN 0
    ELSE IF t.kind # "land" THEN 0
    ELSE Min((base * (10 + t.fertility * mult)) \div 10, 10000)

\* the legacy strategy; its last branch reads config.WATER_PROXIMITY_BONUS_RANGE,
\* which config.py does not define
WaterProximityStrategy(t, base, mult) ==
    IF ~can_support_plant(t) THEN 0
    ELSE IF t.kind = "land" THEN (base * (10 + t.fertility * mult)) \div 10
    ELSE [kind |-> "AttributeError"]

\* the spawner's strategy under the configuration as shipped
calculate_probability(t) ==
    FertilityBasedStrategy(t, BASE_SPAWN_PROBABILITY, FERTILITY_SPAWN_MULTIPLIER)

---------------------------------------------------------------------------
(* World: models/world.py *)

\* a grid is a function from the cells <<x, y>> to tiles: g[<<x, y>>] is
\* grid[y][x]. The grid of a World whose terrain has not been set is empty; a
\* terrain that has been set has GRID_HEIGHT rows of GRID_WIDTH tiles.
EmptyGrid == <<>>

\* get_tile without the lower bounds, where Python's negative indices wrap
get_tile_wraps(g, x, y) ==
    IF g # EmptyGrid /\ y < GRID_HEIGHT /\ x < GRID_WIDTH
    THEN g[<<x % GRID_WIDTH, y % GRID_HEIGHT>>]
    ELSE None

get_tile(g, x, y) ==
    IF g # EmptyGrid /\ 0 <= y /\ y < GRID_HEIGHT /\ 0 <= x /\ x < GRID_WIDTH
    THEN g[<<x, y>>]
    ELSE None

Plant(x, y) == [x |-> x, y |-> y, age |-> 0]

\* add_plant without the capacity check
add_plant_no_capacity(g, ps, p) ==
    LET tile == get_tile(g, p.x, p.y) IN
    IF tile # None /\ can_support_plant(tile)
    THEN [grid |-> [g EXCEPT ![<<p.x, p.y>>].has_plant = TRUE],
          plants |-> Append(ps, p), ok |-> TRUE]
    ELSE [grid |-> g, plants |-> ps, ok |-> FALSE]

\* add_plant that accepts any existing tile
add_plant_any_tile(g, ps, p) ==
    IF Len(ps) >= max_plants THEN [grid |-> g, plants |-> ps, ok |-> FALSE]
    ELSE LET tile == get_tile(g, p.x, p.y) IN
         IF tile # None
         THEN [grid |-> [g EXCEPT ![<<p.x, p.y>>].has_plant = TRUE],
               plants |-> Append(ps, p), ok |-> TRUE]
         ELSE [grid |-> g, plants |-> ps, ok |-> FALSE]

\* add_plant that marks the tile before it looks at the capacity
add_plant_flag_first(g, ps, p) ==
    LET tile == get_tile(g, p.x, p.y) IN
    IF tile # None /\ can_support_plant(tile)
    THEN IF Len(ps) >= max_plants
         THEN [grid |-> [g EXCEPT ![<<p.x, p.y>>].has_plant = TRUE], plants |-> ps, ok |-> FALSE]
         ELSE [grid |-> [g EXCEPT ![<<p.x, p.y>>].has_plant = TRUE],
               plants |-> Append(ps, p), ok |-> TRUE]
    ELSE [grid |-> g, plants |-> ps, ok |-> FALSE]

\* a world is the pair of the grid and the plant list; ok is the return value
add_plant(g, ps, p) ==
    IF Len(ps) >= max_plants THEN [grid |-> g, plants |-> ps, ok |-> FALSE]
    ELSE LET tile == get_tile(g, p.x, p.y) IN
         IF tile # None /\ can_support_plant(tile)
         THEN [grid |-> [g EXCEPT ![<<p.x, p.y>>].has_plant = TRUE],
               plants |-> Append(ps, p), ok |-> TRUE]
         ELSE [grid |-> g, plants |-> ps, ok |-> FALSE]

\* remove_plant that forgets the tile's flag
remove_plant_flag_kept(g, ps, i) ==
    IF i \in 1 .. Len(ps)
    THEN [grid |-> g, plants |-> RemoveAt(ps, i), ok |-> TRUE]
    ELSE [grid |-> g, plants |-> ps, ok |-> FALSE]

\* i is the position of the plant object in the list, 0 when it is not in it
remove_plant_keeps_plant(g, ps, i) ==
    IF i \in 1 .. Len(ps)
    THEN LET p == ps[i]
             tile == get_tile(g, p.x, p.y)
         IN [grid |-> IF tile # None THEN [g EXCEPT ![<<p.x, p.y>>].has_plant = FALSE] ELSE g,
             plants |-> ps, ok |-> TRUE]
    ELSE [grid |-> g, plants |-> ps, ok |-> FALSE]

remove_plant(g, ps, i) ==
    IF i \in 1 .. Len(ps)
    THEN LET p == ps[i]
             tile == get_tile(g, p.x, p.y)
         IN [grid |-> IF tile # None THEN [g EXCEPT ![<<p.x, p.y>>].has_plant = FALSE] ELSE g,
             plants |-> RemoveAt(ps, i), ok |-> TRUE]
    ELSE [grid |-> g, plants |-> ps, ok |-> FALSE]

\* add_creature without the capacity check
add_creature_no_capacity(cs, c) == Append(cs, c)

add_creature(cs, c) ==
    IF Len(cs) >= max_creatures THEN cs ELSE Append(cs, c)

\* the value add_creature returns
add_creature_ok(cs, c) ==
    IF Len(cs) >= max_creatures THEN FALSE ELSE TRUE

---------------------------------------------------------------------------
(* Creature: models/creature.py *)

Genders == {"male", "female"}

\* a constructor that starts the creature at MAX_ENERGY
Creature_full_energy(x, y, gender, life_stage) ==
    [x |-> x, y |-> y, gender |-> gender, life_stage |-> life_stage,
     age |-> 0, plants_eaten |-> 0, energy |-> Halves(MAX_ENERGY),
     is_alive |-> TRUE, offspring_count |-> 0,
     reproduction_cooldown |-> 0, partner |-> 0]

\* partner models the _reproduction_partner attribute: 0 when the attribute
\* is absent, the partner's position in World.creatures when it is set, and
\* -1 when it refers to a creature that is no longer in the list
Creature(x, y, gender, life_stage) ==
    [x |-> x, y |-> y, gender |-> gender, life_stage |-> life_stage,
     age |-> 0, plants_eaten |-> 0, energy |-> Halves(INITIAL_ENERGY),
     is_alive |-> TRUE, offspring_count |-> 0,
     reproduction_cooldown |-> 0, partner |-> 0]

\* update without the starvation check
CreatureUpdate_no_starvation(c) ==
    IF ~c.is_alive THEN c
    ELSE LET c1 == [c EXCEPT !.age = c.age + 1,
                             !.energy = c.energy - ENERGY_LOSS_PER_TICK]
         IN IF c1.age >= MAX_AGE THEN [c1 EXCEPT !.is_alive = FALSE]
            ELSE LET c2 == IF c1.life_stage = "newborn" /\ c1.plants_eaten >= PLANTS_TO_GROW
                           THEN [c1 EXCEPT !.life_stage = "adult"] ELSE c1
                 IN IF c2.reproduction_cooldown > 0
                    THEN [c2 EXCEPT !.reproduction_cooldown = c2.reproduction_cooldown - 1]
                    ELSE c2

\* update that decrements the cooldown before the death checks
CreatureUpdate_cooldown_first(c) ==
    IF ~c.is_alive THEN c
    ELSE LET c0 == IF c.reproduction_cooldown > 0
                   THEN [c EXCEPT !.reproduction_cooldown = c.reproduction_cooldown - 1]
                   ELSE c
             c1 == [c0 EXCEPT !.age = c.age + 1,
                              !.energy = c.energy - ENERGY_LOSS_PER_TICK]
         IN IF c1.energy <= Halves(STARVATION_THRESHOLD) THEN [c1 EXCEPT !.is_alive = FALSE]
            ELSE IF c1.age >= MAX_AGE THEN [c1 EXCEPT !.is_alive = FALSE]
            ELSE IF c1.life_stage = "newborn" /\ c1.plants_eaten >= PLANTS_TO_GROW
                 THEN [c1 EXCEPT !.life_stage = "adult"] ELSE c1

\* update whose old-age test is age > MAX_AGE
CreatureUpdate_age_strict(c) ==
    IF ~c.is_alive THEN c
    ELSE LET c1 == [c EXCEPT !.age = c.age + 1,
                             !.energy = c.energy - ENERGY_LOSS_PER_TICK]
         IN IF c1.energy <= Halves(STARVATION_THRESHOLD) THEN [c1 EXCEPT !.is_alive = FALSE]
            ELSE IF c1.age > MAX_AGE THEN [c1 EXCEPT !.is_alive = FALSE]
            ELSE LET c2 == IF c1.life_stage = "newborn" /\ c1.plants_eaten >= PLANTS_TO_GROW
                           THEN [c1 EXCEPT !.life_stage = "adult"] ELSE c1
                 IN IF c2.reproduction_cooldown > 0
                    THEN [c2 EXCEPT !.reproduction_cooldown = c2.reproduction_cooldown - 1]
                    ELSE c2

CreatureUpdate(c) ==
    IF ~c.is_alive THEN c
    ELSE LET c1 == [c EXCEPT !.age = c.age + 1,
                             !.energy = c.energy - ENERGY_LOSS_PER_TICK]
         IN IF c1.energy <= Halves(STARVATION_THRESHOLD) THEN [c1 EXCEPT !.is_alive = FALSE]
            ELSE IF c1.age >= MAX_AGE THEN [c1 EXCEPT !.is_alive = FALSE]
            ELSE LET c2 == IF c1.life_stage = "newborn" /\ c1.plants_eaten >= PLANTS_TO_GROW
                           THEN [c1 EXCEPT !.life_stage = "adult"] ELSE c1
                 IN IF c2.reproduction_cooldown > 0
                    THEN [c2 EXCEPT !.reproduction_cooldown = c2.reproduction_cooldown - 1]
                    ELSE c2

\* eat_plant with max in place of min
eat_plant_max_cap(c) ==
    [c EXCEPT !.plants_eaten = c.plants_eaten + 1,
              !.energy = Max(c.energy + Halves(ENERGY_FROM_PLANT), Halves(MAX_ENERGY))]

eat_plant(c) ==
    [c EXCEPT !.plants_eaten = c.plants_eaten + 1,
              !.energy = Min(c.energy + Halves(ENERGY_FROM_PLANT), Halves(MAX_ENERGY))]

\* can_reproduce without the is_alive test
can_reproduce_ignores_alive(c) ==
    /\ c.life_stage = "adult"
    /\ c.plants_eaten >= PLANTS_TO_REPRODUCE
    /\ c.reproduction_cooldown = 0

\* can_reproduce that asks for a living adult only
can_reproduce_any_adult(c) ==
    /\ c.is_alive
    /\ c.life_stage = "adult"

can_reproduce(c) ==
    /\ c.is_alive
    /\ c.life_stage = "adult"
    /\ c.plants_eaten >= PLANTS_TO_REPRODUCE
    /\ c.reproduction_cooldown = 0

\* reproduce_with that does not ask the partner whether it can reproduce
reproduce_with_trusts_partner(c, partner) ==
    IF ~can_reproduce(c) THEN FALSE
    ELSE IF c.gender = partner.gender THEN FALSE
    ELSE IF Manhattan(c.x, c.y, partner.x, partner.y) > REPRODUCTION_RANGE THEN FALSE
    ELSE TRUE

reproduce_with(c, partner) ==
    IF ~can_reproduce(c) \/ ~can_reproduce(partner) THEN FALSE
    ELSE IF c.gender = partner.gender THEN FALSE
    ELSE IF Manhattan(c.x, c.y, partner.x, partner.y) > REPRODUCTION_RANGE THEN FALSE
    ELSE TRUE

\* consume_reproduction_resources that takes the life stage from plants_eaten
consume_demotes(c) ==
    LET left == Max(0, c.plants_eaten - PLANTS_TO_REPRODUCE)
    IN [c EXCEPT !.plants_eaten = left,
                 !.life_stage = IF left >= PLANTS_TO_GROW THEN "adult" ELSE "newborn",
                 !.reproduction_cooldown = reproduction_cooldown_max,
                 !.offspring_count = c.offspring_count + 1]

\* consume_reproduction_resources that zeroes plants_eaten
consume_resets_plants(c) ==
    [c EXCEPT !.plants_eaten = 0,
              !.reproduction_cooldown = reproduction_cooldown_max,
              !.offspring_count = c.offspring_count + 1]

\* consume_reproduction_resources that leaves the cooldown as it is
consume_keeps_cooldown(c) ==
    [c EXCEPT !.plants_eaten = Max(0, c.plants_eaten - PLANTS_TO_REPRODUCE),
              !.offspring_count = c.offspring_count + 1]

consume_reproduction_resources(c) ==
    [c EXCEPT !.plants_eaten = Max(0, c.plants_eaten - PLANTS_TO_REPRODUCE),
              !.reproduction_cooldown = reproduction_cooldown_max,
              !.offspring_count = c.offspring_count + 1]

ClampToGrid(v, size) == Max(0, Min(v, size - 1))

move_towards(c, target_x, target_y, grid_width, grid_height) ==
    IF ~c.is_alive THEN c
    ELSE LET dx == IF target_x = c.x THEN 0 ELSE IF target_x > c.x THEN 1 ELSE -1
             dy == IF target_y = c.y THEN 0 ELSE IF target_y > c.y THEN 1 ELSE -1
             new_x == c.x + dx * MOVEMENT_SPEED
             new_y == c.y + dy * MOVEMENT_SPEED
         IN [c EXCEPT !.x = ClampToGrid(new_x, grid_width),
                      !.y = ClampToGrid(new_y, grid_height)]

\* move_random without the clamp
move_random_unclamped(c, rx, ry, grid_width, grid_height) ==
    IF ~c.is_alive THEN c
    ELSE [c EXCEPT !.x = c.x + rx * MOVEMENT_SPEED, !.y = c.y + ry * MOVEMENT_SPEED]

\* rx, ry are the two random.choice([-1, 0, 1]) draws
move_random(c, rx, ry, grid_width, grid_height) ==
    IF ~c.is_alive THEN c
    ELSE LET new_x == c.x + rx * MOVEMENT_SPEED
             new_y == c.y + ry * MOVEMENT_SPEED
         IN [c EXCEPT !.x = ClampToGrid(new_x, grid_width),
                      !.y = ClampToGrid(new_y, grid_height)]

---------------------------------------------------------------------------
(* CreatureManager: services/creature_manager.py *)

_find_plant_at_position(x, y, ps) ==
    LET hits == {i \in 1 .. Len(ps) : ps[i].x = x /\ ps[i].y = y}
    IN IF hits = {} THEN 0 ELSE MinOf(hits)

_find_nearest_plant(c, ps) ==
    LET nearby_plants == {i \in 1 .. Len(ps) :
                             /\ Abs(ps[i].x - c.x) <= search_radius
                             /\ Abs(ps[i].y - c.y) <= search_radius}
        Key(i) == Manhattan(ps[i].x, ps[i].y, c.x, c.y)
    IN IF nearby_plants = {} THEN 0 ELSE ArgMinFirst(nearby_plants, Key)

\* _seek_and_eat_food without the meal on arrival
_seek_and_eat_food_no_arrival_meal(c, g, ps, rx, ry) ==
    LET plant_at_pos == _find_plant_at_position(c.x, c.y, ps) IN
    IF plant_at_pos # 0
    THEN LET r == remove_plant(g, ps, plant_at_pos)
         IN [c |-> eat_plant(c), grid |-> r.grid, plants |-> r.plants]
    ELSE LET nearest_plant == _find_nearest_plant(c, ps) IN
         IF nearest_plant # 0
         THEN [c |-> move_towards(c, ps[nearest_plant].x, ps[nearest_plant].y,
                                  GRID_WIDTH, GRID_HEIGHT),
               grid |-> g, plants |-> ps]
         ELSE [c |-> move_random(c, rx, ry, GRID_WIDTH, GRID_HEIGHT),
               grid |-> g, plants |-> ps]

\* the creature after the call, with the grid and the plant list
_seek_and_eat_food(c, g, ps, rx, ry) ==
    LET plant_at_pos == _find_plant_at_position(c.x, c.y, ps) IN
    IF plant_at_pos # 0
    THEN LET r == remove_plant(g, ps, plant_at_pos)
         IN [c |-> eat_plant(c), grid |-> r.grid, plants |-> r.plants]
    ELSE LET nearest_plant == _find_nearest_plant(c, ps) IN
         IF nearest_plant # 0
         THEN LET t == ps[nearest_plant]
                  m == move_towards(c, t.x, t.y, GRID_WIDTH, GRID_HEIGHT)
              IN IF m.x = t.x /\ m.y = t.y
                 THEN LET r == remove_plant(g, ps, nearest_plant)
                      IN [c |-> eat_plant(m), grid |-> r.grid, plants |-> r.plants]
                 ELSE [c |-> m, grid |-> g, plants |-> ps]
         ELSE [c |-> move_random(c, rx, ry, GRID_WIDTH, GRID_HEIGHT),
               grid |-> g, plants |-> ps]

\* creature i of cs after the call; nobody else changes
_seek_mate_and_reproduce(cs, i, rx, ry) ==
    LET c == cs[i]
        potential_mates == {j \in 1 .. Len(cs) :
                               /\ cs[j].is_alive
                               /\ j # i
                               /\ cs[j].gender # c.gender
                               /\ can_reproduce(cs[j])}
        Key(j) == Manhattan(cs[j].x, cs[j].y, c.x, c.y)
    IN IF potential_mates = {}
       THEN move_random(c, rx, ry, GRID_WIDTH, GRID_HEIGHT)
       ELSE LET nearest_mate == ArgMinFirst(potential_mates, Key)
                distance == Manhattan(c.x, c.y, cs[nearest_mate].x, cs[nearest_mate].y)
            IN IF distance <= REPRODUCTION_RANGE
               THEN IF c.partner = 0 THEN [c EXCEPT !.partner = nearest_mate] ELSE c
               ELSE move_towards(c, cs[nearest_mate].x, cs[nearest_mate].y,
                                 GRID_WIDTH, GRID_HEIGHT)

\* the hunger test with 0.4 in place of 0.7
Hungry_low_threshold(c) == 10 * c.energy < Halves(MAX_ENERGY) * 4

Hungry(c) == 10 * c.energy < Halves(MAX_ENERGY) * 7

\* world.creatures = [c for c in world.creatures if c.is_alive]; a partner
\* reference follows its creature to the creature's new position
FilterAlive(cs) ==
    LET NewIndex(i) == Cardinality({j \in 1 .. i : cs[j].is_alive})
        Remap(p) == IF p <= 0 THEN p
                    ELSE IF cs[p].is_alive THEN NewIndex(p) ELSE -1
        alive == SelectSeq(cs, LAMBDA c : c.is_alive)
    IN [k \in 1 .. Len(alive) |-> [alive[k] EXCEPT !.partner = Remap(alive[k].partner)]]

JitterDraws == {-1, 0, 1}
BabyDraws == JitterDraws \X JitterDraws \X Genders

Baby(c, partner, d) ==
    LET baby_x == (c.x + partner.x) \div 2 + d[1]
        baby_y == (c.y + partner.y) \div 2 + d[2]
    IN Creature(ClampToGrid(baby_x, GRID_WIDTH), ClampToGrid(baby_y, GRID_HEIGHT),
                d[3], "newborn")

\* for _ in range(num_offspring): world.add_creature(baby)
RECURSIVE AddBabies(_, _, _, _, _)
AddBabies(cs, c, partner, draws, k) ==
    IF k > Len(draws) THEN cs
    ELSE AddBabies(add_creature(cs, Baby(c, partner, draws[k])), c, partner, draws, k + 1)

---------------------------------------------------------------------------
(* World.get_statistics and World.clear: models/world.py *)

\* the sum of the fertilities of the tiles of a set of cells
RECURSIVE TotalFertility(_, _)
TotalFertility(g, cells) ==
    IF cells = {} THEN 0
    ELSE LET cell == CHOOSE c \in cells : TRUE
         IN g[cell].fertility + TotalFertility(g, cells \ {cell})

\* what get_statistics returns on a world without terrain
NoStatistics ==
    [plant_count |-> 0, creature_count |-> 0, male_count |-> 0, female_count |-> 0,
     newborn_count |-> 0, adult_count |-> 0, land_tiles |-> 0, water_tiles |-> 0,
     avg_fertility |-> <<0, 1>>, max_plants |-> max_plants,
     max_creatures |-> max_creatures]

\* the count of the list positions of cs whose creature is alive and passes
CountAlive(cs, Test(_)) ==
    Cardinality({i \in 1 .. Len(cs) : cs[i].is_alive /\ Test(cs[i])})

\* get_statistics that counts the dead creatures of the list too
get_statistics_counts_dead(g, ps, cs) ==
    IF g = EmptyGrid THEN NoStatistics
    ELSE LET land == {cell \in DOMAIN g : g[cell].kind = "land"}
             water == {cell \in DOMAIN g : g[cell].kind = "water"}
         IN [plant_count |-> Len(ps),
             creature_count |-> Len(cs),
             male_count |-> CountAlive(cs, LAMBDA c : c.gender = "male"),
             female_count |-> CountAlive(cs, LAMBDA c : c.gender = "female"),
             newborn_count |-> CountAlive(cs, LAMBDA c : c.life_stage = "newborn"),
             adult_count |-> CountAlive(cs, LAMBDA c : c.life_stage = "adult"),
             land_tiles |-> Cardinality(land),
             water_tiles |-> Cardinality(water),
             avg_fertility |-> <<TotalFertility(g, land), Max(Cardinality(land), 1)>>,
             max_plants |-> max_plants,
             max_creatures |-> max_creatures]

\* the dictionary get_statistics returns; avg_fertility is kept as the pair
\* of the sum (in tenths) and the divisor max(land_count, 1)
get_statistics(g, ps, cs) ==
    IF g = EmptyGrid THEN NoStatistics
    ELSE LET land == {cell \in DOMAIN g : g[cell].kind = "land"}
             water == {cell \in DOMAIN g : g[cell].kind = "water"}
         IN [plant_count |-> Len(ps),
             creature_count |-> CountAlive(cs, LAMBDA c : TRUE),
             male_count |-> CountAlive(cs, LAMBDA c : c.gender = "male"),
             female_count |-> CountAlive(cs, LAMBDA c : c.gender = "female"),
             newborn_count |-> CountAlive(cs, LAMBDA c : c.life_stage = "newborn"),
             adult_count |-> CountAlive(cs, LAMBDA c : c.life_stage = "adult"),
             land_tiles |-> Cardinality(land),
             water_tiles |-> Cardinality(water),
             avg_fertility |-> <<TotalFertility(g, land), Max(Cardinality(land), 1)>>,
             max_plants |-> max_plants,
             max_creatures |-> max_creatures]

---------------------------------------------------------------------------
(* PlantSpawner: services/plant_spawner.py *)

\* the tiles that can take a plant and have a spawn probability above 0
eligible_tiles(g) ==
    {cell \in DOMAIN g : can_support_plant(g[cell]) /\ calculate_probability(g[cell]) > 0}

\* attempt_spawn that skips both capacity checks
attempt_spawn_unchecked(g, ps, selected_tile) ==
    IF eligible_tiles(g) = {} THEN [grid |-> g, plants |-> ps, ok |-> FALSE]
    ELSE add_plant_no_capacity(g, ps, Plant(selected_tile[1], selected_tile[2]))

\* attempt_spawn whose capacity check refuses one plant too early
attempt_spawn_off_by_one(g, ps, selected_tile) ==
    IF Len(ps) + 1 >= max_plants THEN [grid |-> g, plants |-> ps, ok |-> FALSE]
    ELSE IF eligible_tiles(g) = {} THEN [grid |-> g, plants |-> ps, ok |-> FALSE]
    ELSE add_plant(g, ps, Plant(selected_tile[1], selected_tile[2]))

\* the world after the call, with ok the value returned; selected_tile is the
\* tile random.choices draws, read only when there are eligible tiles
attempt_spawn(g, ps, selected_tile) ==
    IF Len(ps) >= max_plants THEN [grid |-> g, plants |-> ps, ok |-> FALSE]
    ELSE IF eligible_tiles(g) = {} THEN [grid |-> g, plants |-> ps, ok |-> FALSE]
    ELSE add_plant(g, ps, Plant(selected_tile[1], selected_tile[2]))

---------------------------------------------------------------------------
(* Terrain handed to World.set_terrain *)

LandAt == (<<0, 0>> :> 10) @@ (<<1, 0>> :> 5) @@ (<<3, 1>> :> 1)

IslandTerrain ==
    [cell \in Cells |-> IF cell \in DOMAIN LandAt THEN LandTile(LandAt[cell]) ELSE WaterTile]

OceanTerrain == [cell \in Cells |-> WaterTile]

Terrains == {IslandTerrain, OceanTerrain}

\* the tiles the seeding places creatures on
SeedCells == {<<0, 0>>, <<3, 1>>}

\* a creature as main.py hands it to World.add_creature: constructed on a
\* tile, then given the state of a creature that has lived for a while
Seed(cell, gender, life_stage, age, plants_eaten, energy, cooldown, offspring) ==
    [Creature(cell[1], cell[2], gender, life_stage) EXCEPT
        !.age = age, !.plants_eaten = plants_eaten, !.energy = energy,
        !.reproduction_cooldown = cooldown, !.offspring_count = offspring]

SeedCreatures ==
    { \* as seeded by main.py: adult, 10 plants, energy 50
      Seed(<<0, 0>>, "male", "adult", 0, 10, 100, 0, 0),
      \* seeded, ate on ticks 1 and 2: energy 89
      Seed(<<0, 0>>, "male", "adult", 2, 12, 178, 0, 0),
      Seed(<<0, 0>>, "female", "adult", 2, 12, 178, 0, 0),
      Seed(<<3, 1>>, "female", "adult", 2, 12, 178, 0, 0),
      \* seeded, found no food for 99 ticks: energy 0.5
      Seed(<<3, 1>>, "female", "adult", 99, 10, 1, 0, 0),
      \* offspring that has just eaten its 5th plant
      Seed(<<3, 1>>, "male", "newborn", 121, 5, 179, 0, 0),
      \* old adult that can reproduce
      Seed(<<0, 0>>, "female", "adult", 999, 13, 120, 0, 2),
      \* old adult that reproduced 30 ticks ago
      Seed(<<3, 1>>, "female", "adult", 999, 3, 120, 20, 2) }

PlantInputs == Cells \cup {<<-1, 0>>, <<0, GRID_HEIGHT>>, <<GRID_WIDTH, 0>>}

---------------------------------------------------------------------------
(* Actions *)

Init ==
    /\ grid \in Terrains
    /\ plants = <<>>
    /\ creatures = <<>>
    /\ simulation_ticks = 0
    /\ pc = "idle"
    /\ idx = 0
    /\ processed_pairs = {}
    /\ ticks_run = 0
    /\ factory = None /\ terrain = None /\ probe = None /\ app = None

\* main._spawn_initial_creatures: one World.add_creature on a land tile. The
\* seeding is explored up to MaxSeeded creatures before the first tick; a call
\* on a full world, which add_creature refuses, is explored at any time.
AddCreature ==
    /\ pc = "idle"
    /\ \/ ticks_run = 0 /\ Len(creatures) < MaxSeeded
       \/ Len(creatures) >= max_creatures
    /\ \E c \in SeedCreatures :
          /\ can_support_plant(grid[<<c.x, c.y>>])
          /\ creatures' = add_creature(creatures, c)
    /\ UNCHANGED <<grid, plants, simulation_ticks, pc, idx, processed_pairs, ticks_run>>
    /\ UNCHANGED harness

\* World.add_plant(Plant(x, y)) for any coordinates
AddPlant ==
    /\ pc = "idle"
    /\ \E xy \in PlantInputs :
          LET r == add_plant(grid, plants, Plant(xy[1], xy[2]))
          IN grid' = r.grid /\ plants' = r.plants
    /\ UNCHANGED <<creatures, simulation_ticks, pc, idx, processed_pairs, ticks_run>>
    /\ UNCHANGED harness

\* World.remove_plant(plant): a plant of the list, or (0) a plant that is not in it
RemovePlant ==
    /\ pc = "idle"
    /\ \E i \in 0 .. Len(plants) :
          LET r == remove_plant(grid, plants, i)
          IN grid' = r.grid /\ plants' = r.plants
    /\ UNCHANGED <<creatures, simulation_ticks, pc, idx, processed_pairs, ticks_run>>
    /\ UNCHANGED harness

\* PlantSpawner.attempt_spawn; selected_tile is the weighted random draw
AttemptSpawn ==
    /\ pc = "idle"
    /\ \E selected_tile \in Cells :
          /\ eligible_tiles(grid) # {} => selected_tile \in eligible_tiles(grid)
          /\ LET r == attempt_spawn(grid, plants, selected_tile)
             IN grid' = r.grid /\ plants' = r.plants
    /\ UNCHANGED <<creatures, simulation_ticks, pc, idx, processed_pairs, ticks_run>>
    /\ UNCHANGED harness

\* World.update. It writes the plants' ages and the tick counter, which no
\* other handler reads, and is explored after the update_creatures calls
\* of a run, between any of the plant operations that follow them.
WorldUpdate ==
    /\ pc = "idle" /\ simulation_ticks < MaxWorldTicks /\ ticks_run = MaxTicks
    /\ plants' = [k \in 1 .. Len(plants) |-> [plants[k] EXCEPT !.age = plants[k].age + 1]]
    /\ simulation_ticks' = simulation_ticks + 1
    /\ UNCHANGED <<grid, creatures, pc, idx, processed_pairs, ticks_run>>
    /\ UNCHANGED harness

\* update_creatures, entry: dead creatures are removed
BeginUpdate ==
    /\ pc = "idle" /\ ticks_run < MaxTicks
    /\ creatures' = FilterAlive(creatures)
    /\ pc' = "update" /\ idx' = 1
    /\ UNCHANGED <<grid, plants, simulation_ticks, processed_pairs, ticks_run>>
    /\ UNCHANGED harness

\* update_creatures, one iteration of "for creature in world.creatures"
UpdateStep ==
    /\ pc = "update" /\ idx <= Len(creatures)
    /\ LET c == CreatureUpdate(creatures[idx]) IN
       IF ~c.is_alive
       THEN /\ creatures' = [creatures EXCEPT ![idx] = c]
            /\ UNCHANGED <<grid, plants>>
       ELSE \E rx \in JitterDraws, ry \in JitterDraws :
              IF Hungry(c)
              THEN LET r == _seek_and_eat_food(c, grid, plants, rx, ry)
                   IN /\ creatures' = [creatures EXCEPT ![idx] = r.c]
                      /\ grid' = r.grid
                      /\ plants' = r.plants
              ELSE IF can_reproduce(c)
              THEN /\ creatures' = [creatures EXCEPT ![idx] =
                          _seek_mate_and_reproduce([creatures EXCEPT ![idx] = c], idx, rx, ry)]
                   /\ UNCHANGED <<grid, plants>>
              ELSE /\ creatures' = [creatures EXCEPT ![idx] =
                          move_random(c, rx, ry, GRID_WIDTH, GRID_HEIGHT)]
                   /\ UNCHANGED <<grid, plants>>
    /\ idx' = idx + 1
    /\ UNCHANGED <<simulation_ticks, pc, processed_pairs, ticks_run>>
    /\ UNCHANGED harness

\* the loop is over: _process_reproductions starts with no processed pair
UpdateDone ==
    /\ pc = "update" /\ idx > Len(creatures)
    /\ pc' = "repro" /\ idx' = 1 /\ processed_pairs' = {}
    /\ UNCHANGED <<grid, plants, creatures, simulation_ticks, ticks_run>>
    /\ UNCHANGED harness

\* a resolution step that charges only the creature holding the link
ReproStep_partner_unconsumed ==
    /\ pc = "repro" /\ idx <= Len(creatures)
    /\ LET c == creatures[idx]
           p == c.partner
           pair_id == {idx, p}
       IN IF p = 0
          THEN UNCHANGED <<creatures, processed_pairs>>
          ELSE IF pair_id \in processed_pairs
          THEN UNCHANGED <<creatures, processed_pairs>>
          ELSE IF p > 0 /\ reproduce_with(c, creatures[p])
          THEN \E num_offspring \in 1 .. 3 :
                 \E draws \in [1 .. num_offspring -> BabyDraws] :
                    LET withBabies == AddBabies(creatures, c, creatures[p], draws, 1)
                        consumed == [withBabies EXCEPT
                                       ![idx] = consume_reproduction_resources(@)]
                    IN /\ creatures' = [consumed EXCEPT ![idx].partner = 0]
                       /\ processed_pairs' = processed_pairs \cup {pair_id}
          ELSE /\ creatures' = [creatures EXCEPT ![idx].partner = 0]
               /\ UNCHANGED processed_pairs
    /\ idx' = idx + 1
    /\ UNCHANGED <<grid, plants, simulation_ticks, pc, ticks_run>>
    /\ UNCHANGED harness

\* _process_reproductions, one iteration of "for creature in world.creatures"
ReproStep ==
    /\ pc = "repro" /\ idx <= Len(creatures)
    /\ LET c == creatures[idx]
           p == c.partner
           pair_id == {idx, p}
       IN IF p = 0
          THEN UNCHANGED <<creatures, processed_pairs>>
          ELSE IF pair_id \in processed_pairs
          THEN UNCHANGED <<creatures, processed_pairs>>
          ELSE IF p > 0 /\ reproduce_with(c, creatures[p])
          THEN \E num_offspring \in 1 .. 3 :
                 \E draws \in [1 .. num_offspring -> BabyDraws] :
                    LET withBabies == AddBabies(creatures, c, creatures[p], draws, 1)
                        consumed == [withBabies EXCEPT
                                       ![idx] = consume_reproduction_resources(@),
                                       ![p] = consume_reproduction_resources(@)]
                    IN /\ creatures' = [consumed EXCEPT ![idx].partner = 0]
                       /\ processed_pairs' = processed_pairs \cup {pair_id}
          ELSE /\ creatures' = [creatures EXCEPT ![idx].partner = 0]
               /\ UNCHANGED processed_pairs
    /\ idx' = idx + 1
    /\ UNCHANGED <<grid, plants, simulation_ticks, pc, ticks_run>>
    /\ UNCHANGED harness

\* update_creatures returns
ReproDone ==
    /\ pc = "repro" /\ idx > Len(creatures)
    /\ pc' = "idle" /\ idx' = 0 /\ processed_pairs' = {}
    /\ ticks_run' = ticks_run + 1
    /\ UNCHANGED <<grid, plants, creatures, simulation_ticks>>
    /\ UNCHANGED harness

Next ==
    \/ AddCreature
    \/ AddPlant
    \/ RemovePlant
    \/ AttemptSpawn
    \/ WorldUpdate
    \/ BeginUpdate
    \/ UpdateStep
    \/ UpdateDone
    \/ ReproStep
    \/ ReproDone

Spec == Init /\ [][Next]_vars

---------------------------------------------------------------------------
(* A lone creature in a world without plants: only update_creatures runs *)

\* a Creature as constructed (energy 50.0), Newborn or Adult, and the Adult
\* as main.py seeds it, on a land tile
LoneCreatures ==
    LET built == {Creature(cell[1], cell[2], g, s) :
                     cell \in DOMAIN LandAt, g \in Genders, s \in {"newborn", "adult"}}
    IN built \cup {[c EXCEPT !.plants_eaten = PLANTS_TO_REPRODUCE] :
                      c \in {b \in built : b.life_stage = "adult"}}

LoneInit ==
    /\ grid = IslandTerrain
    /\ plants = <<>>
    /\ \E c \in LoneCreatures : creatures = add_creature(<<>>, c)
    /\ simulation_ticks = 0
    /\ pc = "idle"
    /\ idx = 0
    /\ processed_pairs = {}
    /\ ticks_run = 0
    /\ factory = None /\ terrain = None /\ probe = None /\ app = None

\* update_creatures, entry, for up to MaxLoneTicks calls
LoneBeginUpdate ==
    /\ pc = "idle" /\ ticks_run < MaxLoneTicks
    /\ creatures' = FilterAlive(creatures)
    /\ pc' = "update" /\ idx' = 1
    /\ UNCHANGED <<grid, plants, simulation_ticks, processed_pairs, ticks_run>>
    /\ UNCHANGED harness

LoneNext ==
    \/ LoneBeginUpdate
    \/ UpdateStep
    \/ UpdateDone
    \/ ReproStep
    \/ ReproDone

LoneSpec == LoneInit /\ [][LoneNext]_vars

---------------------------------------------------------------------------
(* A world seeded up to its creature capacity: only update_creatures runs *)

CrowdInit ==
    /\ grid = IslandTerrain
    /\ plants = <<>>
    /\ \E n \in MaxSeeded .. max_creatures : creatures \in [1 .. n -> SeedCreatures]
    /\ simulation_ticks = 0
    /\ pc = "idle"
    /\ idx = 0
    /\ processed_pairs = {}
    /\ ticks_run = 0
    /\ factory = None /\ terrain = None /\ probe = None /\ app = None

\* update_creatures, entry, for up to MaxCrowdTicks calls
CrowdBeginUpdate ==
    /\ pc = "idle" /\ ticks_run < MaxCrowdTicks
    /\ creatures' = FilterAlive(creatures)
    /\ pc' = "update" /\ idx' = 1
    /\ UNCHANGED <<grid, plants, simulation_ticks, processed_pairs, ticks_run>>
    /\ UNCHANGED harness

CrowdNext ==
    \/ CrowdBeginUpdate
    \/ UpdateStep
    \/ UpdateDone
    \/ ReproStep
    \/ ReproDone

CrowdSpec == CrowdInit /\ [][CrowdNext]_vars

---------------------------------------------------------------------------
(* Floats of the terrain generator *)

\* A fertility is an IEEE-754 double. The model holds a double d >= 0 as the
\* integer d * 2^62, written in three limbs <<l2, l1, l0>> of 26 bits with l2
\* the most significant: 1.0 is <<1024, 0, 0>>. Every double the fertility
\* computation produces is 0 or lies between 2^-10 and 2^16, and is therefore
\* a multiple of 2^-62 that fits the three limbs. Sums and quotients are
\* rounded to 53 significant bits, ties to even, as the hardware rounds them.
LimbBase == 2 ^ 26

Normalize(l2, l1, l0) ==
    LET c0 == l0 \div LimbBase
        c1 == (l1 + c0) \div LimbBase
    IN <<l2 + c1, (l1 + c0) % LimbBase, l0 % LimbBase>>

\* the number of bits of n
BitLength(n) == CHOOSE k \in 0 .. 28 : 2 ^ k > n /\ (k = 0 \/ 2 ^ (k - 1) <= n)

\* n plus the fraction rem / den of its last unit, rounded to a double
RoundToDouble(n, rem, den) ==
    IF n[1] = 0 THEN n
    ELSE LET ulp == 2 ^ (BitLength(n[1]) - 1)
             r == n[3] % ulp
             half == ulp \div 2
             odd == (n[3] \div ulp) % 2 = 1
             up == IF ulp = 1
                   THEN 2 * rem > den \/ (2 * rem = den /\ odd)
                   ELSE r > half \/ (r = half /\ (rem > 0 \/ odd))
         IN Normalize(n[1], n[2], n[3] - r + (IF up THEN ulp ELSE 0))

FloatZero == <<0, 0, 0>>
FloatOne == <<1024, 0, 0>>

\* a + b
FloatAdd(a, b) ==
    RoundToDouble(Normalize(a[1] + b[1], a[2] + b[2], a[3] + b[3]), 0, 1)

\* total / count for an integer count from 1 to 9
FloatDiv(total, count) ==
    LET q2 == total[1] \div count
        t1 == (total[1] % count) * LimbBase + total[2]
        q1 == t1 \div count
        t0 == (t1 % count) * LimbBase + total[3]
        q0 == t0 \div count
    IN RoundToDouble(<<q2, q1, q0>>, t0 % count, count)

FloatLess(a, b) ==
    \/ a[1] < b[1]
    \/ a[1] = b[1] /\ a[2] < b[2]
    \/ a[1] = b[1] /\ a[2] = b[2] /\ a[3] < b[3]

\* Python's min(a, b) and max(a, b)
FloatMin(a, b) == IF FloatLess(b, a) THEN b ELSE a
FloatMax(a, b) == IF FloatLess(a, b) THEN b ELSE a

---------------------------------------------------------------------------
(* TerrainGeneratorFactory: services/terrain_generator.py *)

\* heights are in millionths: 0.35 is 350000
SEA_LEVEL == 350000
TERRAIN_SEED == 42
FERTILITY_MAX_DISTANCE == 15
MIN_FERTILITY == <<102, 26843545, 40265344>>
MAX_FERTILITY == FloatOne

\* float('inf'); a distance is held as its square, an integer
Infinity == -1

\* MAX_FERTILITY * math.exp(-FERTILITY_FALLOFF_RATE * math.sqrt(d2)) with the
\* shipped rate 0.08, for the squared distances d2 = 1 .. 400 of the water
\* cells the search accepts
exp_falloff ==
    << <<945, 18195810, 9243136>>, <<914, 30931045, 63954432>>, <<891, 33692256, 22639104>>,
       <<872, 39945873, 39624704>>, <<856, 18155045, 22939136>>, <<841, 52001943, 49907200>>,
       <<828, 44389857, 63741952>>, <<816, 42909904, 16785408>>, <<805, 34019478, 30364160>>,
       <<795, 7868766, 45350912>>, <<785, 24138688, 16759808>>, <<776, 9955693, 34900992>>,
       <<767, 27849118, 45109760>>, <<759, 7000934, 20044800>>, <<751, 11466322, 51058176>>,
       <<743, 38695908, 3644416>>, <<736, 19426621, 11783680>>, <<729, 18927741, 8515584>>,
       <<722, 35613688, 65974784>>, <<716, 997634, 55340544>>, <<709, 48090906, 26689536>>,
       <<703, 41612553, 29707264>>, <<697, 47728768, 43345920>>, <<691, 65599198, 38341632>>,
       <<686, 27362105, 14801920>>, <<680, 66557636, 52665344>>, <<675, 48355690, 13195776>>,
       <<670, 39309541, 24338944>>, <<665, 38913316, 51513344>>, <<660, 46704876, 54964736>>,
       <<655, 62260727, 61869056>>, <<651, 18082805, 50758144>>, <<646, 48030188, 3428864>>,
       <<642, 17553811, 51793408>>, <<637, 60564576, 58220544>>, <<633, 42559985, 56724992>>,
       <<629, 30384048, 28990464>>, <<625, 23789942, 10610688>>, <<621, 22547215, 25869824>>,
       <<617, 26440317, 35191808>>, <<613, 35267294, 16199168>>, <<609, 48838625, 40081408>>,
       <<605, 66976188, 30581760>>, <<602, 22403463, 21045248>>, <<598, 49180156, 2492928>>,
       <<595, 12939398, 62674944>>, <<591, 47757985, 14803968>>, <<588, 19284844, 21243904>>,
       <<584, 61611398, 36975104>>, <<581, 40400146, 57122816>>, <<578, 22646253, 54660608>>,
       <<575, 8241675, 18583040>>, <<571, 64192504, 6830592>>, <<568, 56183164, 29193216>>,
       <<565, 51229275, 8288768>>, <<562, 49241899, 25771008>>, <<559, 50136138, 9826816>>,
       <<556, 53830880, 52946944>>, <<553, 60248575, 15980544>>, <<551, 2206151, 42214400>>,
       <<548, 13850281, 61565440>>, <<545, 28004014, 321536>>, <<542, 44602059, 6079488>>,
       <<539, 63581771, 6396928>>, <<537, 17774137, 7941632>>, <<534, 41339097, 66829312>>,
       <<532, 3374, 7868928>>, <<529, 27931259, 49642496>>, <<526, 57962465, 7578624>>,
       <<524, 22938605, 53096960>>, <<521, 57029698, 38121984>>, <<519, 25972023, 34854400>>,
       <<516, 63938951, 46189568>>, <<514, 36669953, 66190336>>, <<512, 11232574, 61910016>>,
       <<509, 54695770, 54102784>>, <<507, 32803252, 6623232>>, <<505, 12626605, 41479168>>,
       <<502, 61238644, 21743616>>, <<500, 44386760, 29074688>>, <<498, 29146057, 42734336>>,
       <<496, 15483846, 13895936>>, <<494, 3368460, 53779456>>, <<491, 59878080, 52502272>>,
       <<489, 50765232, 59745280>>, <<487, 43109936, 7709696>>, <<485, 36884208, 41970944>>,
       <<483, 32060896, 42187264>>, <<481, 28613641, 2282752>>, <<479, 26516845, 54625536>>,
       <<477, 25745647, 64126208>>, <<475, 26275888, 60846592>>, <<473, 28084087, 28712448>>,
       <<471, 31147413, 51373056>>, <<469, 35443665, 4685056>>, <<467, 40951241, 66047744>>,
       <<465, 47649126, 22800384>>, <<463, 55516859, 59818496>>, <<461, 64534524, 2471168>>,
       <<460, 7573856, 31164416>>, <<458, 18833688, 45453056>>, <<456, 31186744, 23321600>>,
       <<454, 44615078, 30438912>>, <<452, 59101197, 10787584>>, <<451, 7519178, 27108864>>,
       <<449, 24070113, 9159168>>, <<447, 41628907, 14086912>>, <<445, 60179723, 57211904>>,
       <<444, 12598242, 48029184>>, <<442, 33087103, 30834176>>, <<440, 54522709, 57054208>>,
       <<439, 9781810, 23130624>>, <<437, 33068079, 9204992>>, <<435, 57258921, 43350272>>,
       <<434, 15232056, 28115456>>, <<432, 41192097, 29357312>>, <<431, 908496, 53671936>>,
       <<429, 28586447, 51419392>>, <<427, 57104828, 9984768>>, <<426, 19342784, 1987584>>,
       <<424, 49506313, 53202176>>, <<423, 13366212, 30555136>>, <<421, 45128976, 19052800>>,
       <<420, 10565883, 45925376>>, <<418, 43883900, 23584000>>, <<417, 10854760, 44842752>>,
       <<415, 45685873, 23026944>>, <<414, 14149403, 18458112>>, <<412, 50453177, 42694912>>,
       <<411, 20369768, 10982400>>, <<409, 58107397, 43652608>>, <<408, 29439022, 42161664>>,
       <<407, 1464376, 15618816>>, <<405, 41283371, 16450816>>, <<404, 14669503, 20254464>>,
       <<402, 55831894, 17809920>>, <<401, 30544375, 50382848>>, <<400, 5907532, 53669888>>,
       <<398, 49022107, 46864128>>, <<397, 25662403, 62480128>>, <<396, 2929466, 17894656>>,
       <<394, 47924484, 65134592>>, <<393, 26422200, 9291264>>, <<392, 5524082, 9839104>>,
       <<390, 52331736, 14419200>>, <<389, 32620307, 5177344>>, <<388, 13491659, 50745344>>,
       <<386, 62047784, 29386240>>, <<385, 44064201, 29688320>>, <<384, 26643142, 19275520>>,
       <<383, 9778090, 56379392>>, <<381, 60571508, 37415424>>, <<380, 44799375, 54095872>>,
       <<379, 29564373, 17702912>>, <<378, 14860423, 26723328>>, <<377, 681552, 1260288>>,
       <<375, 54130749, 60451328>>, <<374, 40984514, 32095232>>, <<373, 28346031, 40497664>>,
       <<372, 16209717, 24884480>>, <<371, 4570080, 178688>>, <<369, 60530581, 53359616>>,
       <<368, 49868181, 8166912>>, <<367, 39686514, 33073408>>, <<366, 29980438, 44926720>>,
       <<365, 20744892, 55615488>>, <<364, 11974896, 52358400>>, <<363, 3665549, 15484160>>,
       <<361, 62920890, 6487552>>, <<360, 55518442, 57813504>>, <<359, 48562396, 65609728>>,
       <<358, 42048150, 20880640>>, <<357, 35971171, 42094592>>, <<356, 30326999, 7814400>>,
       <<355, 25111238, 64345088>>, <<354, 20319563, 62154496>>, <<353, 15947712, 1361152>>,
       <<352, 11991485, 9821440>>, <<351, 8446747, 55066880>>, <<350, 5309425, 61107968>>,
       <<349, 2575505, 27388160>>, <<348, 241031, 15596288>>, <<346, 65410970, 4284416>>,
       <<345, 63863753, 13871104>>, <<344, 62704459, 32219392>>, <<343, 61929358, 9162496>>,
       <<342, 61534771, 54139392>>, <<341, 61517075, 31588096>>, <<340, 61872695, 30426624>>,
       <<339, 62598108, 29866496>>, <<338, 63689840, 36569344>>, <<337, 65144466, 22014208>>,
       <<336, 66958607, 62682880>>, <<336, 2020070, 11938560>>, <<335, 4543295, 45723136>>,
       <<334, 7416180, 1665536>>, <<333, 10635526, 61697024>>, <<332, 14198183, 26671360>>,
       <<331, 18101039, 1529600>>, <<330, 22341025, 7939840>>, <<329, 26915114, 779520>>,
       <<328, 31820318, 19990272>>, <<327, 37053690, 8005888>>, <<326, 42612320, 30932224>>,
       <<325, 48493338, 31020288>>, <<324, 54693910, 49935872>>, <<323, 61211240, 50383360>>,
       <<323, 933704, 7141376>>, <<322, 8076303, 66156544>>, <<321, 15527486, 33480704>>,
       <<320, 23284596, 5954816>>, <<319, 31345010, 63250432>>, <<318, 39706142, 27874816>>,
       <<317, 48365434, 31313408>>, <<316, 57320363, 7242496>>, <<315, 66568435, 57949184>>,
       <<315, 8998327, 16209152>>, <<314, 18825334, 14555136>>, <<313, 28938191, 48634880>>,
       <<312, 39334528, 11051520>>, <<311, 50012000, 61433856>>, <<310, 60968295, 57668608>>,
       <<310, 5092262, 61525248>>, <<309, 16599371, 39624192>>, <<308, 28378526, 34791168>>,
       <<307, 40427523, 2478848>>, <<306, 52744182, 50441472>>, <<305, 65326353, 7897856>>,
       <<305, 11063043, 1899008>>, <<304, 24169878, 27615488>>, <<303, 37535917, 56036608>>,
       <<302, 51159108, 7977216>>, <<301, 65037419, 64147968>>, <<301, 12059983, 36198912>>,
       <<300, 26442544, 13326848>>, <<299, 41074278, 2724096>>, <<298, 55953247, 40261120>>,
       <<298, 3968673, 33187328>>, <<297, 19336390, 5931520>>, <<296, 34945661, 10795264>>,
       <<295, 50794635, 39069184>>, <<294, 66881482, 66783744>>, <<294, 16095529, 33757696>>,
       <<293, 32652713, 24367872>>, <<292, 49442400, 46056192>>, <<291, 66462841, 9539072>>,
       <<291, 16603439, 44932864>>, <<290, 34080212, 12936192>>, <<289, 51782601, 22993664>>,
       <<289, 2600068, 12288512>>, <<288, 20748683, 63265280>>, <<287, 39117945, 50395648>>,
       <<286, 57706232, 25467136>>, <<286, 9403075, 66313472>>, <<285, 28424617, 58748416>>,
       <<284, 47660424, 15671040>>, <<284, 77, 60921856>>, <<283, 19659770, 10778368>>,
       <<282, 39529116, 29470208>>, <<281, 59606612, 9908992>>, <<281, 12781904, 28425984>>,
       <<280, 33271247, 61579008>>, <<279, 53964320, 38766336>>, <<279, 7750815, 29306880>>,
       <<278, 28847032, 27119616>>, <<277, 50142694, 4081664>>, <<277, 4527537, 30731264>>,
       <<276, 26217905, 61664768>>, <<275, 48103564, 56698880>>, <<275, 3074293, 35155456>>,
       <<274, 25346476, 63250432>>, <<273, 47809921, 40375552>>, <<273, 3354447, 22458368>>,
       <<272, 26196479, 8656128>>, <<271, 49225862, 63801088>>, <<271, 5332457, 38384128>>,
       <<270, 28732726, 26931456>>, <<269, 52316553, 21266688>>, <<269, 8973834, 33718784>>,
       <<268, 32921070, 19185664>>, <<267, 57048180, 65811712>>, <<267, 14245098, 48971520>>,
       <<266, 38728359, 23618048>>, <<265, 63387918, 12825344>>, <<265, 21113741, 64924928>>,
       <<264, 46122400, 42373888>>, <<264, 4195019, 14756096>>, <<263, 29548189, 47963904>>,
       <<262, 55071922, 60637440>>, <<262, 13656240, 16299264>>, <<261, 39517765, 48526080>>,
       <<260, 65546541, 49392896>>, <<260, 24632620, 63363840>>, <<259, 50992658, 10237184>>,
       <<259, 10407862, 12197376>>, <<258, 37094907, 49918464>>, <<257, 63943887, 21449728>>,
       <<257, 23844903, 2553088>>, <<256, 51014658, 37406464>>, <<256, 11234410, 63648768>>,
       <<255, 38720882, 38871040>>, <<254, 66364213, 116736>>, <<254, 27054550, 56391680>>,
       <<253, 55008645, 45743744>>, <<253, 16007799, 64868608>>, <<252, 44268780, 59301248>>,
       <<252, 5572908, 17700224>>, <<251, 34136966, 32012416>>, <<250, 62851156, 22205952>>,
       <<250, 24605686, 65079296>>, <<249, 53617367, 52084480>>, <<249, 15667560, 18338560>>,
       <<248, 44973090, 1969408>>, <<248, 7315334, 37772032>>, <<247, 36911135, 16745344>>,
       <<246, 66650749, 15479680>>, <<246, 29424441, 21652992>>, <<245, 59449075, 62275712>>,
       <<245, 22506068, 63578368>>, <<244, 52812299, 46536320>>, <<244, 16149198, 54039552>>,
       <<243, 46733660, 11036288>>, <<243, 10347128, 54521600>>, <<242, 41206512, 58296704>>,
       <<242, 5093271, 30224896>>, <<241, 36224326, 39799424>>, <<241, 381151, 11572352>>,
       <<240, 31780680, 55525760>>, <<239, 63313265, 59320960>>, <<239, 27869263, 18814848>>,
       <<238, 59665628, 33105536>>, <<238, 24483867, 31208704>>, <<237, 56540948, 35675136>>,
       <<237, 21618390, 23622400>>, <<236, 53933173, 56266368>>, <<236, 19266830, 5865728>>,
       <<235, 51836352, 20928000>>, <<235, 17423283, 51952896>>, <<234, 50244629, 48327168>>,
       <<234, 16081945, 21061888>>, <<233, 49152247, 38481280>>, <<233, 15237103, 20642304>>,
       <<232, 48553541, 3575296>>, <<232, 14883139, 927744>>, <<231, 48442936, 66990080>>,
       <<231, 15014524, 24232960>>, <<230, 48814951, 63313536>>, <<230, 15625820, 956672>>,
       <<229, 49664190, 14285696>>, <<229, 16711673, 33025152>>, <<228, 50985342, 4170240>>,
       <<228, 18266817, 22487936>>, <<227, 52773181, 58417024>>, <<227, 20286067, 21554944>>,
       <<226, 55022566, 25523712>>, <<226, 22764320, 48902528>>, <<225, 57728432, 65962624>>,
       <<225, 25696554, 43239296>>, <<224, 60885798, 3249024>>, <<224, 29077824, 21145088>>,
       <<223, 64489755, 20091264>>, <<223, 32903261, 36436224>>, <<223, 1426610, 15170688>>,
       <<222, 37168073, 8078976>>, <<222, 5909334, 36384896>>, <<221, 41867539, 20547968>>,
       <<221, 10824380, 45643392>>, <<220, 46997012, 22799872>>, <<220, 16167136, 21764992>>,
       <<219, 52551914, 66638080>>, <<219, 21933058, 65854976>>, <<218, 58527739, 10649728>>,
       <<218, 28117674, 39327488>>, <<217, 64920044, 31817728>>, <<217, 34716576, 9563520>>,
       <<217, 4615592, 65686144>>, <<216, 41725422, 26746752>>, <<216, 11827803, 54064384>>,
       <<215, 49139936, 37110400>>, <<215, 19443567, 60673536>>, <<214, 56955904, 66751488>>,
       <<214, 27458702, 53347456>>, <<213, 65169176, 4857600>>, <<213, 35869087, 23818240>>,
       <<213, 6666794, 60029824>>, <<212, 44670660, 42363520>>, <<212, 15662458, 10595712>>,
       <<211, 53859420, 45945856>>, <<211, 25043329, 315648>>, <<210, 63431423, 30863104>>,
       <<210, 34805491, 60859648>>, <<210, 6273917, 45885312>>, <<209, 44945087, 38718976>>,
       <<209, 16600799, 52932352>>, <<208, 55458311, 60724608>>, <<208, 27299428, 57894016>>,
       <<207, 66341414, 61723648>>, <<207, 38366081, 41784192>>, <<207, 10481835, 52088832>>,
       <<206, 49797087, 27724416>> >>

\* the cells of a width x height map, <<x, y>>
MapCells(width, height) == (0 .. width - 1) \X (0 .. height - 1)

\* the tile at grid[y][x]; a grid is the sequence of its rows
TileAt(g, x, y) == g[y + 1][x + 1]

WaterTileAt(x, y) == [kind |-> "water", x |-> x, y |-> y, has_plant |-> FALSE]

\* the constructor clamps the fertility to [0.0, 1.0]
LandTileAt(x, y, fertility) ==
    [kind |-> "land", x |-> x, y |-> y,
     fertility |-> FloatMax(FloatZero, FloatMin(FloatOne, fertility)),
     has_plant |-> FALSE]

\* the default fertility 0.5
HalfFertility == <<512, 0, 0>>

_heightmap_to_tiles_simple(heightmap, width, height) ==
    [row \in 1 .. height |->
        [col \in 1 .. width |->
            IF heightmap[<<col - 1, row - 1>>] < SEA_LEVEL
            THEN WaterTileAt(col - 1, row - 1)
            ELSE LandTileAt(col - 1, row - 1, HalfFertility)]]

\* water_positions: the coordinates of the water tiles in the order of the
\* scan, row by row
WaterPositions(g, width, height) ==
    LET water == {cell \in MapCells(width, height) : TileAt(g, cell[1], cell[2]).kind = "water"}
        ScanIndex(cell) == cell[2] * width + cell[1]
    IN [k \in 1 .. Cardinality(water) |->
           CHOOSE cell \in water :
              Cardinality({other \in water : ScanIndex(other) < ScanIndex(cell)}) = k - 1]

search_limit == FERTILITY_MAX_DISTANCE + 5

\* the loop of _find_nearest_water_distance_optimized from the k-th water position
RECURSIVE NearestWaterFrom(_, _, _, _, _)
NearestWaterFrom(x, y, water_positions, k, min_distance) ==
    IF k > Len(water_positions) THEN min_distance
    ELSE LET wx == water_positions[k][1]
             wy == water_positions[k][2]
         IN IF Manhattan(x, y, wx, wy) > search_limit
            THEN NearestWaterFrom(x, y, water_positions, k + 1, min_distance)
            ELSE LET distance == (x - wx) * (x - wx) + (y - wy) * (y - wy)
                     nearer == IF min_distance = Infinity \/ distance < min_distance
                               THEN distance ELSE min_distance
                 IN IF nearer <= 1 THEN nearer
                    ELSE NearestWaterFrom(x, y, water_positions, k + 1, nearer)

_find_nearest_water_distance_optimized(x, y, water_positions) ==
    NearestWaterFrom(x, y, water_positions, 1, Infinity)

_distance_to_fertility(distance) ==
    IF distance = 0 THEN MAX_FERTILITY
    ELSE LET fertility == IF distance = Infinity THEN FloatZero ELSE exp_falloff[distance]
         IN FloatMax(MIN_FERTILITY, FloatMin(MAX_FERTILITY, fertility))

\* the offsets <<dx, dy>> in the order the blur adds them
Offsets ==
    << <<-1, -1>>, <<0, -1>>, <<1, -1>>,
       <<-1, 0>>, <<0, 0>>, <<1, 0>>,
       <<-1, 1>>, <<0, 1>>, <<1, 1>> >>

RECURSIVE FloatSum(_, _, _, _)
FloatSum(fertility_map, cells, k, total) ==
    IF k > Len(cells) THEN total
    ELSE FloatSum(fertility_map, cells, k + 1, FloatAdd(total, fertility_map[cells[k]]))

\* one pass of the box blur
SmoothPass(fertility_map, width, height) ==
    [cell \in MapCells(width, height) |->
        LET InMap(o) == /\ 0 <= cell[1] + o[1] /\ cell[1] + o[1] < width
                        /\ 0 <= cell[2] + o[2] /\ cell[2] + o[2] < height
            inside == SelectSeq(Offsets, InMap)
            cells == [k \in 1 .. Len(inside) |->
                         <<cell[1] + inside[k][1], cell[2] + inside[k][2]>>]
        IN IF Len(cells) > 0
           THEN FloatDiv(FloatSum(fertility_map, cells, 1, FloatZero), Len(cells))
           ELSE fertility_map[cell]]

\* iterations = 2
_smooth_fertility_map(fertility_map, width, height) ==
    SmoothPass(SmoothPass(fertility_map, width, height), width, height)

\* the fertility map before the smoothing: 0.0 on water
UnsmoothedFertility(g, width, height) ==
    LET water_positions == WaterPositions(g, width, height)
    IN [cell \in MapCells(width, height) |->
           IF TileAt(g, cell[1], cell[2]).kind = "land"
           THEN _distance_to_fertility(
                   _find_nearest_water_distance_optimized(cell[1], cell[2], water_positions))
           ELSE FloatZero]

_calculate_fertility_map(g, width, height) ==
    _smooth_fertility_map(UnsmoothedFertility(g, width, height), width, height)

\* _create_tiles_with_fertility with the comparison <= in place of <
_create_tiles_with_fertility_le(heightmap, fertility_map, width, height) ==
    [row \in 1 .. height |->
        [col \in 1 .. width |->
            IF heightmap[<<col - 1, row - 1>>] <= SEA_LEVEL
            THEN WaterTileAt(col - 1, row - 1)
            ELSE LandTileAt(col - 1, row - 1, fertility_map[<<col - 1, row - 1>>])]]

_create_tiles_with_fertility(heightmap, fertility_map, width, height) ==
    [row \in 1 .. height |->
        [col \in 1 .. width |->
            IF heightmap[<<col - 1, row - 1>>] < SEA_LEVEL
            THEN WaterTileAt(col - 1, row - 1)
            ELSE LandTileAt(col - 1, row - 1, fertility_map[<<col - 1, row - 1>>])]]

---------------------------------------------------------------------------
(* The generator's random stream, noise and erosion *)

\* random.Random(seed): the Mersenne Twister is replaced by a congruential
\* generator; the state is the last number drawn, the seed at construction
Random(seed) == seed % 65537

NextRandom(state) == (state * 75 + 74) % 65537

\* randint(lo, hi) on a non-empty range: the value drawn and the new state
randint(state, lo, hi) ==
    [value |-> lo + (NextRandom(state) % (hi - lo + 1)), random |-> NextRandom(state)]

\* __init__: a missing seed and the seed 0 both fall back to TERRAIN_SEED
TerrainGeneratorFactory_seed_as_given(seed) ==
    [seed |-> seed, random |-> Random(seed)]

TerrainGeneratorFactory(seed) ==
    LET s == IF seed = 0 THEN TERRAIN_SEED ELSE seed
    IN [seed |-> s, random |-> Random(s)]

\* the noise at a lattice point, as a height in millionths. The source mixes
\* the bits of n = (x + seed) + (y + seed) * 57 and blends four octaves of
\* interpolated lattice values, which makes neighbouring heights close to
\* each other; the model keeps n and one congruential mix of it, and as its
\* maps are a few cells wide it yields the heights of a stretch of shore,
\* within 0.005 of the sea level. A heightmap is, as in the source, a
\* function of the seed and the coordinates alone.
_random_value(x, y, seed) ==
    LET n == (x + seed) + (y + seed) * 57
    IN SEA_LEVEL - 5000 + (((n * 15731 + 789221) % 65537) % 10001)

_generate_heightmap(seed, width, height) ==
    [cell \in MapCells(width, height) |-> _random_value(cell[1], cell[2], seed)]

\* erosion_strength 0.002, min_slope 0.0001, in millionths
erosion_strength == 2000
min_slope == 100
max_path_length == 100

\* sediment * deposition_strength, deposition_strength being 0.001
Deposit(sediment) == sediment \div 1000

\* the lowest of the up to eight neighbours, the first one in the scan when
\* several are equally low, or the cell itself when none is lower
_find_lowest_neighbor(heightmap, x, y, width, height) ==
    LET Lower(k) == /\ Offsets[k] # <<0, 0>>
                    /\ <<x + Offsets[k][1], y + Offsets[k][2]>> \in MapCells(width, height)
                    /\ heightmap[<<x + Offsets[k][1], y + Offsets[k][2]>>] < heightmap[<<x, y>>]
        lower == {k \in 1 .. Len(Offsets) : Lower(k)}
        HeightOf(k) == heightmap[<<x + Offsets[k][1], y + Offsets[k][2]>>]
    IN IF lower = {} THEN <<x, y>>
       ELSE LET k == ArgMinFirst(lower, HeightOf)
            IN <<x + Offsets[k][1], y + Offsets[k][2]>>

\* one droplet, with steps iterations of its loop left
RECURSIVE _erode_path(_, _, _, _, _, _, _)
_erode_path(heightmap, x, y, width, height, sediment, steps) ==
    IF steps = 0 THEN heightmap
    ELSE LET next == _find_lowest_neighbor(heightmap, x, y, width, height)
             height_diff == heightmap[<<x, y>>] - heightmap[next]
         IN IF height_diff <= min_slope
            THEN IF sediment > 0
                 THEN [heightmap EXCEPT ![<<x, y>>] = @ + Deposit(sediment)]
                 ELSE heightmap
            ELSE LET erosion_amount == Min(height_diff, erosion_strength)
                     carried == sediment + erosion_amount
                     deposit_amount == IF height_diff < erosion_strength
                                       THEN Deposit(carried) ELSE 0
                     eroded == [heightmap EXCEPT
                                   ![<<x, y>>] = @ - erosion_amount + deposit_amount]
                 IN IF eroded[next] < SEA_LEVEL THEN eroded
                    ELSE _erode_path(eroded, next[1], next[2], width, height,
                                     carried - deposit_amount, steps - 1)

_clamp_heightmap(heightmap, width, height) ==
    [cell \in MapCells(width, height) |-> Max(0, Min(1000000, heightmap[cell]))]

\* the droplets of _apply_hydraulic_erosion that are left to fall; randint
\* raises ValueError on an empty range
RECURSIVE Droplets(_, _, _, _, _)
Droplets(heightmap, random, width, height, left) ==
    IF left <= 0 THEN [heightmap |-> heightmap, random |-> random, error |-> "none"]
    ELSE IF width - 1 < 0 \/ height - 1 < 0
    THEN [heightmap |-> heightmap, random |-> random, error |-> "ValueError"]
    ELSE LET x == randint(random, 0, width - 1)
             y == randint(x.random, 0, height - 1)
         IN Droplets(_erode_path(heightmap, x.value, y.value, width, height, 0,
                                 max_path_length),
                     y.random, width, height, left - 1)

\* the clamp that ends _apply_hydraulic_erosion, skipped when randint raised
ClampEroded(r, width, height) ==
    IF r.error # "none" THEN r
    ELSE [r EXCEPT !.heightmap = _clamp_heightmap(r.heightmap, width, height)]

_apply_hydraulic_erosion(heightmap, random, width, height) ==
    ClampEroded(Droplets(heightmap, random, width, height, (width * height) \div 2),
                width, height)

\* steps 3 to 5 of generate_terrain on the eroded heightmap
TilesOf(heightmap, width, height) ==
    _create_tiles_with_fertility(
        heightmap,
        _calculate_fertility_map(_heightmap_to_tiles_simple(heightmap, width, height),
                                 width, height),
        width, height)

\* what generate_terrain returns and leaves behind once the erosion r is done
Generated(f, r, width, height) ==
    [factory |-> [f EXCEPT !.random = r.random],
     outcome |-> IF r.error # "none"
                 THEN [kind |-> r.error, grid |-> <<>>]
                 ELSE [kind |-> "grid", grid |-> TilesOf(r.heightmap, width, height)]]

\* generate_terrain(width, height) on a factory: the factory after the call
\* and what the call returned, a grid or an error
generate_terrain(f, width, height) ==
    Generated(f, _apply_hydraulic_erosion(_generate_heightmap(f.seed, width, height),
                                          f.random, width, height),
              width, height)

---------------------------------------------------------------------------
(* A World as constructed, with no terrain set: the state in which the
   specifications below exercise one function on drawn inputs *)

WorldConstructed ==
    /\ grid = EmptyGrid
    /\ plants = <<>>
    /\ creatures = <<>>
    /\ simulation_ticks = 0
    /\ pc = "idle"
    /\ idx = 0
    /\ processed_pairs = {}
    /\ ticks_run = 0

world == <<grid, plants, creatures, simulation_ticks, pc, idx, processed_pairs, ticks_run>>

---------------------------------------------------------------------------
(* The spawn probability strategies on one tile under one configuration *)

\* the tiles a grid can hold: Water, and Land of every fertility (in tenths),
\* free or occupied
ProbeTiles ==
    {WaterTile} \cup {[LandTile(f) EXCEPT !.has_plant = b] : f \in 0 .. 10, b \in BOOLEAN}

\* the values the control panel's sliders give the two settings (0.01 to 0.3
\* and 1.0 to 5.0), with the values config.py ships
BaseProbabilities == {100, BASE_SPAWN_PROBABILITY, 3000}
Multipliers == {1, FERTILITY_SPAWN_MULTIPLIER, 5}

StrategyInit ==
    /\ WorldConstructed
    /\ factory = None /\ terrain = None /\ app = None
    /\ \E t \in ProbeTiles, base \in BaseProbabilities, mult \in Multipliers :
          probe = [tile |-> t, base |-> base, mult |-> mult, called |-> FALSE,
                   fertility_based |-> 0, water_proximity |-> 0]

\* calculate_probability(tile, grid) of both strategies
CalculateProbability ==
    /\ ~probe.called
    /\ probe' = [probe EXCEPT
                    !.called = TRUE,
                    !.fertility_based = FertilityBasedStrategy(probe.tile, probe.base, probe.mult),
                    !.water_proximity = WaterProximityStrategy(probe.tile, probe.base, probe.mult)]
    /\ UNCHANGED <<world, factory, terrain, app>>

StrategyNext == CalculateProbability

StrategySpec == StrategyInit /\ [][StrategyNext]_vars

---------------------------------------------------------------------------
(* World.get_tile on one pair of coordinates *)

\* coordinates inside the grid and up to one step outside it on every side
ProbeCoordinates == (-1 .. GRID_WIDTH) \X (-1 .. GRID_HEIGHT)

\* a World as constructed or after set_terrain, with one plant or none
GetTileInit ==
    /\ \E g \in {EmptyGrid} \cup Terrains :
          \/ grid = g /\ plants = <<>>
          \/ \E cell \in Cells :
                LET r == add_plant(g, <<>>, Plant(cell[1], cell[2]))
                IN r.ok /\ grid = r.grid /\ plants = r.plants
    /\ creatures = <<>>
    /\ simulation_ticks = 0
    /\ pc = "idle"
    /\ idx = 0
    /\ processed_pairs = {}
    /\ ticks_run = 0
    /\ factory = None /\ terrain = None /\ app = None
    /\ \E xy \in ProbeCoordinates :
          probe = [x |-> xy[1], y |-> xy[2], called |-> FALSE, tile |-> None]

\* World.get_tile(x, y)
GetTile ==
    /\ ~probe.called
    /\ probe' = [probe EXCEPT !.called = TRUE, !.tile = get_tile(grid, probe.x, probe.y)]
    /\ UNCHANGED <<world, factory, terrain, app>>

GetTileNext == GetTile

GetTileSpec == GetTileInit /\ [][GetTileNext]_vars

---------------------------------------------------------------------------
(* Steps 3 to 5 of generate_terrain on a drawn heightmap: classification by
   the sea level, the fertility map and the final tiles *)

SmallMapSize == 3
WideMapWidth == 16
WideMapHeight == 11

\* a cell just below the sea level is Water, a cell at the sea level is Land
Shore(width, height, water) ==
    [cell \in MapCells(width, height) |->
        IF cell \in water THEN SEA_LEVEL - 1 ELSE SEA_LEVEL]

\* every arrangement of Water and Land on the small map
SmallHeightmaps ==
    {Shore(SmallMapSize, SmallMapSize, water) :
        water \in SUBSET MapCells(SmallMapSize, SmallMapSize)}

\* a wide map of land with water in none, one or two of its corners
WideCorners ==
    {<<0, 0>>, <<WideMapWidth - 1, 0>>, <<0, WideMapHeight - 1>>,
     <<WideMapWidth - 1, WideMapHeight - 1>>}
WideHeightmaps ==
    {Shore(WideMapWidth, WideMapHeight, water) :
        water \in {w \in SUBSET WideCorners : Cardinality(w) <= 2}}

FertilityInit ==
    /\ WorldConstructed
    /\ factory = None /\ probe = None /\ app = None
    /\ \/ \E heightmap \in SmallHeightmaps :
             terrain = [width |-> SmallMapSize, height |-> SmallMapSize,
                        heightmap |-> heightmap, stage |-> "heightmap",
                        unsmoothed |-> <<>>, fertility_map |-> <<>>, grid |-> <<>>]
       \/ \E heightmap \in WideHeightmaps :
             terrain = [width |-> WideMapWidth, height |-> WideMapHeight,
                        heightmap |-> heightmap, stage |-> "heightmap",
                        unsmoothed |-> <<>>, fertility_map |-> <<>>, grid |-> <<>>]

\* steps 3 and 4: _heightmap_to_tiles_simple and _calculate_fertility_map;
\* unsmoothed records the map as it is handed to _smooth_fertility_map
CalculateFertilityMap ==
    /\ terrain.stage = "heightmap"
    /\ LET g == _heightmap_to_tiles_simple(terrain.heightmap, terrain.width, terrain.height)
       IN terrain' = [terrain EXCEPT
                        !.stage = "fertility",
                        !.grid = g,
                        !.unsmoothed = UnsmoothedFertility(g, terrain.width, terrain.height),
                        !.fertility_map =
                            _calculate_fertility_map(g, terrain.width, terrain.height)]
    /\ UNCHANGED <<world, factory, probe, app>>

\* step 5: _create_tiles_with_fertility
CreateTiles ==
    /\ terrain.stage = "fertility"
    /\ terrain' = [terrain EXCEPT
                      !.stage = "tiles",
                      !.grid = _create_tiles_with_fertility(
                                  terrain.heightmap, terrain.fertility_map,
                                  terrain.width, terrain.height)]
    /\ UNCHANGED <<world, factory, probe, app>>

FertilityNext ==
    \/ CalculateFertilityMap
    \/ CreateTiles

FertilitySpec == FertilityInit /\ [][FertilityNext]_vars

---------------------------------------------------------------------------
(* A TerrainGeneratorFactory and the generate_terrain calls made on it *)

MaxTerrainSize == 3
MaxCalls == 2

\* the seeds an instance is built with: none (0), the shipped one, and others
Seeds == {0, 1, 7, TERRAIN_SEED}

\* widths and heights: negative, zero and positive up to the largest map
TerrainSizes == -2 .. MaxTerrainSize

TerrainInit ==
    /\ WorldConstructed
    /\ app = None
    /\ \E seed \in Seeds : /\ factory = TerrainGeneratorFactory(seed)
                           /\ probe = [seed |-> seed]
    /\ terrain = <<>>

\* generate_terrain(width, height); terrain lists the calls and their outcomes
GenerateTerrain ==
    /\ Len(terrain) < MaxCalls
    /\ \E width \in TerrainSizes, height \in TerrainSizes :
          LET r == generate_terrain(factory, width, height)
          IN /\ factory' = r.factory
             /\ terrain' = Append(terrain, [width |-> width, height |-> height,
                                            outcome |-> r.outcome])
    /\ UNCHANGED <<world, probe, app>>

TerrainNext == GenerateTerrain

TerrainSpec == TerrainInit /\ [][TerrainNext]_vars

---------------------------------------------------------------------------
(* SimulationApp: main.py, with the buttons of ui/control_panel.py.

   main.py constructs FertilityBasedStrategy and calls generate_terrain with
   keyword arguments that the classes in strategies/ and services/ do not
   take. HandleStart covers both outcomes of _initialize_simulation: the
   callees take the arguments, as main.py is written for, or the constructor
   call of line 139 raises TypeError and Tk reports it and goes on.

   Tk runs one callback at a time: a button handler or a timer callback
   starts only when no other is running. *)

InitialCreatures == 1
MaxSteps == 1
MaxAppTicks == 1

Callbacks == {"_update", "_try_spawn_plant", "_update_creatures"}

\* the buttons that are enabled
FreshButtons == [start |-> TRUE, pause |-> FALSE, step |-> FALSE, restart |-> FALSE]

\* __init__ of SimulationApp and of ControlPanel. A job is the number Tk's
\* after() returned, 0 standing for None; pending is Tk's queue of timers,
\* position the callback that is running, steps the single steps handled.
SimulationApp ==
    [running |-> FALSE, initialized |-> FALSE, tick_count |-> 0, has_world |-> FALSE,
     update_job |-> 0, spawn_job |-> 0, creature_job |-> 0,
     pending |-> {}, position |-> "none", buttons |-> FreshButtons, steps |-> 0]

\* root.after(interval, callback): an identifier that no pending timer and no
\* job attribute holds (Tk numbers its timers upwards and reuses none)
after(a) ==
    LET used == {job.id : job \in a.pending} \cup {a.update_job, a.spawn_job, a.creature_job}
    IN CHOOSE id \in 1 .. 7 : id \notin used /\ \A other \in 1 .. id - 1 : other \in used

\* root.after_cancel(job)
after_cancel(pending, job) == {timer \in pending : timer.id # job}

_schedule_update(a) ==
    IF a.running
    THEN [a EXCEPT !.update_job = after(a),
                   !.pending = @ \cup {[id |-> after(a), callback |-> "_update"]}]
    ELSE a

\* current_config is a filled dictionary once the simulation is initialized
_schedule_plant_spawn(a) ==
    IF a.running /\ a.has_world
    THEN [a EXCEPT !.spawn_job = after(a),
                   !.pending = @ \cup {[id |-> after(a), callback |-> "_try_spawn_plant"]}]
    ELSE a

_schedule_creature_update(a) ==
    IF a.running
    THEN [a EXCEPT !.creature_job = after(a),
                   !.pending = @ \cup {[id |-> after(a), callback |-> "_update_creatures"]}]
    ELSE a

\* _cancel_scheduled_jobs that leaves the spawn timer in the queue
_cancel_scheduled_jobs_keeps_spawn(a) ==
    LET no_update == IF a.update_job # 0
                     THEN [a EXCEPT !.pending = after_cancel(@, a.update_job),
                                    !.update_job = 0]
                     ELSE a
    IN IF no_update.creature_job # 0
       THEN [no_update EXCEPT !.pending = after_cancel(@, no_update.creature_job),
                              !.creature_job = 0]
       ELSE no_update

CancelUpdate(a) ==
    IF a.update_job # 0
    THEN [a EXCEPT !.pending = after_cancel(@, a.update_job), !.update_job = 0]
    ELSE a

CancelSpawn(a) ==
    IF a.spawn_job # 0
    THEN [a EXCEPT !.pending = after_cancel(@, a.spawn_job), !.spawn_job = 0]
    ELSE a

CancelCreature(a) ==
    IF a.creature_job # 0
    THEN [a EXCEPT !.pending = after_cancel(@, a.creature_job), !.creature_job = 0]
    ELSE a

_cancel_scheduled_jobs(a) == CancelCreature(CancelSpawn(CancelUpdate(a)))

\* World.clear: the tiles of the grid that is dropped, their flags reset
ClearedTiles_keeps_flags(g) == g

ClearedTiles(g) == [cell \in DOMAIN g |-> [g[cell] EXCEPT !.has_plant = FALSE]]

\* _spawn_initial_creatures: the lists it can leave, one add_creature for each
\* draw of a land tile and a gender
RECURSIVE SpawnedCreatures(_, _)
SpawnedCreatures(g, left) ==
    LET land_tiles == {cell \in DOMAIN g : can_support_plant(g[cell])}
    IN IF left = 0 \/ land_tiles = {} THEN {<<>>}
       ELSE {add_creature(cs, [Creature(cell[1], cell[2], gender, "adult")
                                  EXCEPT !.plants_eaten = 10]) :
                cs \in SpawnedCreatures(g, left - 1),
                cell \in land_tiles, gender \in Genders}

\* no callback of the application is running
Idle == pc = "idle" /\ app.position = "none"

\* the Start / Resume button: ControlPanel._handle_start, then
\* SimulationApp._handle_start
HandleStart ==
    /\ Idle /\ app.buttons.start
    /\ LET pressed == [app EXCEPT !.buttons = [start |-> FALSE, pause |-> TRUE,
                                               step |-> FALSE, restart |-> TRUE]]
           started == [pressed EXCEPT !.running = TRUE, !.initialized = TRUE,
                                      !.has_world = TRUE]
       IN IF app.initialized
          THEN /\ app' = _schedule_creature_update(_schedule_plant_spawn(
                            _schedule_update(started)))
               /\ UNCHANGED world
          ELSE /\ plants' = <<>> /\ simulation_ticks' = 0
               /\ UNCHANGED <<pc, idx, processed_pairs, ticks_run>>
               /\ \/ /\ grid' \in Terrains
                     /\ creatures' \in SpawnedCreatures(grid', InitialCreatures)
                     /\ app' = _schedule_creature_update(_schedule_plant_spawn(
                                  _schedule_update(started)))
                  \/ /\ grid' = EmptyGrid /\ creatures' = <<>>
                     /\ app' = [pressed EXCEPT !.has_world = TRUE]
    /\ UNCHANGED <<factory, terrain, probe>>

\* the Pause button
HandlePause ==
    /\ Idle /\ app.buttons.pause
    /\ app' = _cancel_scheduled_jobs(
                 [app EXCEPT !.running = FALSE,
                             !.buttons = [@ EXCEPT !.start = TRUE, !.pause = FALSE,
                                                   !.step = TRUE]])
    /\ UNCHANGED <<world, factory, terrain, probe>>

\* the Next Step button: _update, _try_spawn_plant and _update_creatures are
\* called when the simulation is initialized and not running, and each of
\* them returns at once when it is not running
HandleStep ==
    /\ Idle /\ app.buttons.step /\ app.steps < MaxSteps
    /\ app' = [app EXCEPT !.steps = @ + 1]
    /\ UNCHANGED <<world, factory, terrain, probe>>

\* the Restart button; terrain keeps the tiles World.clear has dropped
HandleRestart ==
    /\ Idle /\ app.buttons.restart
    /\ app' = _cancel_scheduled_jobs(
                 [app EXCEPT !.running = FALSE, !.initialized = FALSE,
                             !.tick_count = 0, !.buttons = FreshButtons])
    /\ IF app.has_world
       THEN /\ terrain' = ClearedTiles(grid)
            /\ grid' = EmptyGrid /\ plants' = <<>> /\ creatures' = <<>>
            /\ simulation_ticks' = 0
       ELSE UNCHANGED <<terrain, grid, plants, creatures, simulation_ticks>>
    /\ UNCHANGED <<pc, idx, processed_pairs, ticks_run, factory, probe>>

\* a timer fires _update: World.update, tick_count, the next timer
Update ==
    /\ Idle
    /\ \E timer \in app.pending :
          /\ timer.callback = "_update"
          /\ LET fired == [app EXCEPT !.pending = @ \ {timer}]
             IN IF ~app.running \/ ~app.initialized
                THEN app' = fired /\ UNCHANGED <<plants, simulation_ticks>>
                ELSE /\ simulation_ticks < MaxWorldTicks
                     /\ plants' = [k \in 1 .. Len(plants) |->
                                     [plants[k] EXCEPT !.age = plants[k].age + 1]]
                     /\ simulation_ticks' = simulation_ticks + 1
                     /\ app' = _schedule_update([fired EXCEPT !.tick_count = @ + 1])
    /\ UNCHANGED <<grid, creatures, pc, idx, processed_pairs, ticks_run>>
    /\ UNCHANGED <<factory, terrain, probe>>

\* a timer fires _try_spawn_plant
TrySpawnPlant ==
    /\ Idle
    /\ \E timer \in app.pending :
          /\ timer.callback = "_try_spawn_plant"
          /\ LET fired == [app EXCEPT !.pending = @ \ {timer}]
             IN IF ~app.running \/ ~app.initialized
                THEN app' = fired /\ UNCHANGED <<grid, plants>>
                ELSE /\ \E selected_tile \in Cells :
                           /\ eligible_tiles(grid) # {} => selected_tile \in eligible_tiles(grid)
                           /\ LET r == attempt_spawn(grid, plants, selected_tile)
                              IN grid' = r.grid /\ plants' = r.plants
                     /\ app' = _schedule_plant_spawn(fired)
    /\ UNCHANGED <<creatures, simulation_ticks, pc, idx, processed_pairs, ticks_run>>
    /\ UNCHANGED <<factory, terrain, probe>>

\* a timer fires _update_creatures, which enters update_creatures
UpdateCreatures ==
    /\ Idle
    /\ \E timer \in app.pending :
          /\ timer.callback = "_update_creatures"
          /\ LET fired == [app EXCEPT !.pending = @ \ {timer}]
             IN IF ~app.running \/ ~app.initialized
                THEN app' = fired /\ UNCHANGED <<creatures, pc, idx>>
                ELSE /\ ticks_run < MaxAppTicks
                     /\ app' = [fired EXCEPT !.position = "_update_creatures"]
                     /\ creatures' = FilterAlive(creatures)
                     /\ pc' = "update" /\ idx' = 1
    /\ UNCHANGED <<grid, plants, simulation_ticks, processed_pairs, ticks_run>>
    /\ UNCHANGED <<factory, terrain, probe>>

\* update_creatures has returned: the next timer
UpdateCreaturesReturn ==
    /\ pc = "idle" /\ app.position = "_update_creatures"
    /\ app' = _schedule_creature_update([app EXCEPT !.position = "none"])
    /\ UNCHANGED <<world, factory, terrain, probe>>

AppInit ==
    /\ WorldConstructed
    /\ factory = None /\ terrain = None /\ probe = None
    /\ app = SimulationApp

AppNext ==
    \/ HandleStart
    \/ HandlePause
    \/ HandleStep
    \/ HandleRestart
    \/ Update
    \/ TrySpawnPlant
    \/ UpdateCreatures
    \/ UpdateStep
    \/ UpdateDone
    \/ ReproStep
    \/ ReproDone
    \/ UpdateCreaturesReturn

AppSpec == AppInit /\ [][AppNext]_vars

---------------------------------------------------------------------------
(* Properties *)

CreatureIdx == 1 .. Len(creatures)

PlantsAt(cell) == {i \in 1 .. Len(plants) : plants[i].x = cell[1] /\ plants[i].y = cell[2]}

\* the step that enters update_creatures and drops the dead creatures
IsFilterStep == pc = "idle" /\ pc' = "update"

\* C1: in every reachable state a tile has has_plant = TRUE if and only if
\* exactly one plant of World.plants has that tile's coordinates.
OccupancyConsistent ==
    \A cell \in Cells : grid[cell].has_plant <=> Cardinality(PlantsAt(cell)) = 1

\* a creature has eaten a plant off its tile while another tile still holds one
OccupancyWitness ==
    /\ \E i \in CreatureIdx : creatures[i].plants_eaten = 11
    /\ \E cell \in Cells : grid[cell].has_plant
    /\ \E cell \in Cells : grid[cell].kind = "land" /\ ~grid[cell].has_plant

\* C2: the number of plants in World.plants never exceeds max_plants.
PlantCapacity == Len(plants) <= max_plants

\* the plant list is full while free land tiles remain
PlantCapacityWitness ==
    /\ Len(plants) = max_plants
    /\ \E cell \in Cells : can_support_plant(grid[cell])

\* C3: the length of World.creatures never exceeds max_creatures, also when
\* the reproduction step creates offspring.
CreatureCapacity == Len(creatures) <= max_creatures

\* the list is full, holds an offspring and a parent that has just reproduced
CreatureCapacityWitness ==
    /\ Len(creatures) = max_creatures
    /\ \E i \in CreatureIdx :
          /\ creatures[i].life_stage = "newborn"
          /\ creatures[i].age = 0
    /\ \E i \in CreatureIdx :
          /\ creatures[i].reproduction_cooldown = reproduction_cooldown_max
          /\ creatures[i].offspring_count >= 1

\* C4: every plant of World.plants lies inside the grid on a Land tile whose
\* has_plant is TRUE, and no two plants share their coordinates.
PlantsOnLand ==
    \A i \in 1 .. Len(plants) :
       /\ <<plants[i].x, plants[i].y>> \in Cells
       /\ get_tile(grid, plants[i].x, plants[i].y).kind = "land"
       /\ get_tile(grid, plants[i].x, plants[i].y).has_plant
       /\ \A j \in 1 .. Len(plants) :
             j # i => <<plants[j].x, plants[j].y>> # <<plants[i].x, plants[i].y>>

\* two plants stand in the world after a creature update has run
PlantsOnLandWitness == Len(plants) = 2 /\ ticks_run >= 1

\* C5: when update_creatures has returned, every creature of World.creatures
\* is inside the grid: 0 <= x < width and 0 <= y < height.
CreaturesInBounds ==
    pc = "idle" =>
       \A i \in CreatureIdx :
          /\ 0 <= creatures[i].x /\ creatures[i].x < GRID_WIDTH
          /\ 0 <= creatures[i].y /\ creatures[i].y < GRID_HEIGHT

\* after a call: an offspring is in the list and a parent has left its seed tile
CreaturesInBoundsWitness ==
    /\ pc = "idle" /\ ticks_run >= 1
    /\ \E i \in CreatureIdx : creatures[i].life_stage = "newborn" /\ creatures[i].age = 0
    /\ \E i \in CreatureIdx :
          /\ creatures[i].reproduction_cooldown = reproduction_cooldown_max
          /\ <<creatures[i].x, creatures[i].y>> \notin SeedCells

\* C6: at the end of every tick a live creature has energy > 0, and a
\* creature whose energy is <= 0 is not alive.
AliveHasEnergy ==
    pc = "idle" =>
       \A i \in CreatureIdx :
          /\ creatures[i].is_alive => creatures[i].energy > 0
          /\ creatures[i].energy <= 0 => ~creatures[i].is_alive

\* a creature has starved in a tick that has ended
AliveHasEnergyWitness ==
    /\ pc = "idle" /\ ticks_run >= 1
    /\ \E i \in CreatureIdx : ~creatures[i].is_alive /\ creatures[i].energy = 0

\* C7: at every tick boundary 0 <= energy <= MAX_ENERGY; in a tick a live
\* creature that eats nothing loses exactly ENERGY_LOSS_PER_TICK, one that eats
\* gets ENERGY_FROM_PLANT on top, capped at MAX_ENERGY; nothing else changes energy.
EnergyBounded ==
    pc = "idle" =>
       \A i \in CreatureIdx :
          0 <= creatures[i].energy /\ creatures[i].energy <= Halves(MAX_ENERGY)

EnergyStep ==
    ~IsFilterStep =>
       \A i \in CreatureIdx :
          /\ i <= Len(creatures')
          /\ LET c == creatures[i]
                 d == creatures'[i]
             IN IF pc = "update" /\ idx = i /\ c.is_alive
                THEN IF d.plants_eaten = c.plants_eaten
                     THEN d.energy = c.energy - ENERGY_LOSS_PER_TICK
                     ELSE /\ d.plants_eaten = c.plants_eaten + 1
                          /\ d.energy = Min(c.energy - ENERGY_LOSS_PER_TICK
                                               + Halves(ENERGY_FROM_PLANT),
                                            Halves(MAX_ENERGY))
                ELSE d.energy = c.energy

EnergyLaw == [](EnergyBounded) /\ [][EnergyStep]_vars

\* the seeded adult (energy 50, 10 plants) has eaten on its first tick: 69.5
EnergyLawWitness ==
    \E i \in CreatureIdx :
       /\ creatures[i].plants_eaten = 11
       /\ creatures[i].age = 1
       /\ creatures[i].energy = 139

\* the fields of a creature that no operation may change once it is dead
Vitals(c) == <<c.is_alive, c.age, c.energy, c.x, c.y, c.life_stage,
               c.plants_eaten, c.reproduction_cooldown>>

\* C8: a dead creature never becomes alive again, and no operation changes
\* its age, energy, position, life stage, plants_eaten or cooldown; it only
\* leaves the list, at the start of the next update_creatures.
DeadStep ==
    IF IsFilterStep
    THEN \A k \in 1 .. Len(creatures') : creatures'[k].is_alive
    ELSE \A i \in CreatureIdx :
            ~creatures[i].is_alive =>
               /\ i <= Len(creatures')
               /\ Vitals(creatures'[i]) = Vitals(creatures[i])

DeadStaysDead == [][DeadStep]_vars

\* the reproduction step meets a link whose partner died in this tick
DeadStaysDeadWitness ==
    /\ pc = "repro"
    /\ \E j \in CreatureIdx :
          /\ creatures[j].partner > 0
          /\ ~creatures[creatures[j].partner].is_alive
          /\ creatures[creatures[j].partner].plants_eaten >= PLANTS_TO_REPRODUCE

\* C9: a life stage changes only from Newborn to Adult, only in the state
\* update of a creature that stays alive and has plants_eaten >= PLANTS_TO_GROW;
\* an Adult never becomes a Newborn again.
LifeStageStep ==
    IF IsFilterStep
    THEN LET alive == SelectSeq(creatures, LAMBDA c : c.is_alive)
         IN /\ Len(creatures') = Len(alive)
            /\ \A k \in 1 .. Len(alive) : creatures'[k].life_stage = alive[k].life_stage
    ELSE \A i \in CreatureIdx :
            /\ i <= Len(creatures')
            /\ creatures'[i].life_stage # creatures[i].life_stage =>
                  /\ pc = "update" /\ idx = i
                  /\ creatures[i].life_stage = "newborn"
                  /\ creatures'[i].life_stage = "adult"
                  /\ creatures[i].is_alive /\ creatures'[i].is_alive
                  /\ creatures[i].plants_eaten >= PLANTS_TO_GROW

LifeStageMonotone == [][LifeStageStep]_vars

\* the newborn of age 121 with 5 plants has become an Adult on its next tick
LifeStageWitness ==
    \E i \in CreatureIdx :
       /\ creatures[i].life_stage = "adult"
       /\ creatures[i].age = 122
       /\ creatures[i].is_alive

\* C10: the state update of a live creature adds 1 to age and takes the energy
\* loss, then decides death on the new values (starvation, then old age), then
\* growth, then the cooldown decrement; a creature that dies in the tick keeps
\* its life stage, cooldown, position, plants_eaten and link state, and the
\* plants and tiles are left alone.
UpdateOrderStep ==
    (pc = "update" /\ idx <= Len(creatures) /\ creatures[idx].is_alive) =>
       LET c == creatures[idx]
           d == creatures'[idx]
       IN /\ d.age = c.age + 1
          /\ d.is_alive <=> (c.energy - ENERGY_LOSS_PER_TICK > Halves(STARVATION_THRESHOLD)
                              /\ c.age + 1 < MAX_AGE)
          /\ IF ~d.is_alive
             THEN /\ d = [c EXCEPT !.age = c.age + 1,
                                   !.energy = c.energy - ENERGY_LOSS_PER_TICK,
                                   !.is_alive = FALSE]
                  /\ plants' = plants
                  /\ grid' = grid
             ELSE /\ d.life_stage = IF c.life_stage = "newborn"
                                       /\ c.plants_eaten >= PLANTS_TO_GROW
                                    THEN "adult" ELSE c.life_stage
                  /\ d.reproduction_cooldown = IF c.reproduction_cooldown > 0
                                               THEN c.reproduction_cooldown - 1 ELSE 0

UpdateOrder == [][UpdateOrderStep]_vars

\* an old creature has died with its cooldown still running
UpdateOrderWitness ==
    \E i \in CreatureIdx :
       /\ ~creatures[i].is_alive
       /\ creatures[i].age = MAX_AGE
       /\ creatures[i].reproduction_cooldown = 20

\* C11: a creature that does not starve in a tick dies of old age exactly in
\* the tick in which its age reaches MAX_AGE, so no creature with
\* is_alive = TRUE ever has age >= MAX_AGE; a creature whose energy runs out
\* is dead whatever its age, the starvation test coming first.
AliveBelowMaxAge ==
    \A i \in CreatureIdx : creatures[i].is_alive => creatures[i].age < MAX_AGE

OldAgeStep ==
    (pc = "update" /\ idx <= Len(creatures) /\ creatures[idx].is_alive) =>
       LET c == creatures[idx]
           d == creatures'[idx]
           starved == c.energy - ENERGY_LOSS_PER_TICK <= Halves(STARVATION_THRESHOLD)
       IN /\ starved => ~d.is_alive
          /\ ~starved => (~d.is_alive <=> c.age + 1 >= MAX_AGE)
          /\ (~starved /\ ~d.is_alive) => d.age = MAX_AGE

OldAge == [](AliveBelowMaxAge) /\ [][OldAgeStep]_vars

\* the adult of age 999 with energy 60 has died on its next tick, not starved
OldAgeWitness ==
    \E i \in CreatureIdx :
       /\ ~creatures[i].is_alive
       /\ creatures[i].age = MAX_AGE
       /\ creatures[i].energy = 119
       /\ creatures[i].plants_eaten = 13

\* the number of state updates the lone creature has been through
LoneTicksLived ==
    IF pc = "idle" \/ (pc = "update" /\ idx = 1) THEN ticks_run ELSE ticks_run + 1

\* C12: a lone creature created with energy 50 that never eats is alive
\* through ticks 1..99, each tick taking 0.5 of its energy, and is dead from
\* tick 100 on, when its energy has come down to 0.
LoneStarvesAtTick100 ==
    /\ (ticks_run <= 99 \/ (ticks_run = 100 /\ pc = "idle")) => Len(creatures) = 1
    /\ \A i \in CreatureIdx :
          /\ creatures[i].age = LoneTicksLived
          /\ creatures[i].energy = Halves(50) - LoneTicksLived
          /\ creatures[i].is_alive <=> LoneTicksLived <= 99

\* tick 100 has ended and left the creature dead with no energy
LoneStarvesWitness ==
    /\ pc = "idle" /\ ticks_run = 100
    /\ Len(creatures) = 1
    /\ ~creatures[1].is_alive
    /\ creatures[1].energy = 0

Sgn(n) == IF n = 0 THEN 0 ELSE IF n > 0 THEN 1 ELSE -1

\* the cell one step from c in the direction of (tx, ty)
StepToward(c, tx, ty) == <<c.x + Sgn(tx - c.x), c.y + Sgn(ty - c.y)>>

\* d is c after at most one step along each axis
WithinOneStep(c, d) == Abs(d.x - c.x) <= 1 /\ Abs(d.y - c.y) <= 1

\* the plants c can see, and the nearest of them
PlantsInSight(c) ==
    {i \in 1 .. Len(plants) : /\ Abs(plants[i].x - c.x) <= search_radius
                              /\ Abs(plants[i].y - c.y) <= search_radius}

NearestPlants(c) ==
    {i \in PlantsInSight(c) :
        \A j \in PlantsInSight(c) :
           Manhattan(plants[i].x, plants[i].y, c.x, c.y)
              <= Manhattan(plants[j].x, plants[j].y, c.x, c.y)}

\* the live opposite-gender creatures that can reproduce, seen from creature i
\* whose own update is done (d), and the nearest of them
MatesOf(i, d) ==
    {j \in CreatureIdx \ {i} : /\ creatures[j].is_alive
                               /\ creatures[j].gender # d.gender
                               /\ can_reproduce(creatures[j])}

NearestMates(i, d) ==
    {j \in MatesOf(i, d) :
        \A k \in MatesOf(i, d) :
           Manhattan(creatures[j].x, creatures[j].y, d.x, d.y)
              <= Manhattan(creatures[k].x, creatures[k].y, d.x, d.y)}

\* C13: behaviour selection is a strict priority. A creature that is alive
\* after its state update and has energy below 0.7 * MAX_ENERGY only seeks
\* food: it records no pending-partner link and its step, if plants are in
\* sight, is the step to the nearest plant, even when it can reproduce. A
\* link is recorded, or a step toward a mate taken, only by a creature that
\* is not hungry and can reproduce; every other creature random-walks.
PriorityStep ==
    (pc = "update" /\ idx <= Len(creatures)
        /\ creatures[idx].is_alive /\ creatures'[idx].is_alive) =>
       LET c == creatures[idx]
           d == creatures'[idx]
           hungry == 10 * (c.energy - ENERGY_LOSS_PER_TICK) < 7 * Halves(MAX_ENERGY)
           eligible == /\ d.life_stage = "adult"
                       /\ c.plants_eaten >= PLANTS_TO_REPRODUCE
                       /\ d.reproduction_cooldown = 0
           fed == plants' # plants \/ grid' # grid \/ d.plants_eaten # c.plants_eaten
       IN /\ \A j \in CreatureIdx \ {idx} : creatures'[j] = creatures[j]
          /\ d.partner # c.partner => (~hungry /\ eligible)
          /\ fed => hungry
          /\ hungry =>
                IF PlantsAt(<<c.x, c.y>>) # {} THEN <<d.x, d.y>> = <<c.x, c.y>>
                ELSE IF PlantsInSight(c) # {}
                THEN \E n \in NearestPlants(c) :
                        <<d.x, d.y>> = StepToward(c, plants[n].x, plants[n].y)
                ELSE WithinOneStep(c, d)
          /\ (~hungry /\ eligible) =>
                IF MatesOf(idx, c) = {} THEN d.partner = c.partner /\ WithinOneStep(c, d)
                ELSE \E m \in NearestMates(idx, c) :
                        IF Manhattan(c.x, c.y, creatures[m].x, creatures[m].y)
                              <= REPRODUCTION_RANGE
                        THEN /\ <<d.x, d.y>> = <<c.x, c.y>>
                             /\ d.partner = IF c.partner = 0 THEN m ELSE c.partner
                        ELSE /\ <<d.x, d.y>> = StepToward(c, creatures[m].x, creatures[m].y)
                             /\ d.partner = c.partner
          /\ (~hungry /\ ~eligible) => WithinOneStep(c, d)

AtePlantAt(cell, c, d) ==
    LET i == CHOOSE i \in PlantsAt(cell) : TRUE
    IN /\ plants' = RemoveAt(plants, i)
       /\ grid' = [grid EXCEPT ![cell].has_plant = FALSE]
       /\ d.plants_eaten = c.plants_eaten + 1
       /\ d.energy = Min(c.energy - ENERGY_LOSS_PER_TICK + Halves(ENERGY_FROM_PLANT),
                         Halves(MAX_ENERGY))

\* C14: a hungry creature with a plant on its own cell eats it without
\* moving: the plant leaves World.plants, the tile's has_plant is cleared,
\* plants_eaten rises by 1 and energy becomes
\* min(energy + ENERGY_FROM_PLANT, MAX_ENERGY). A hungry creature whose step
\* lands on a plant eats that plant in the same tick, with the same effects;
\* a hungry creature that does neither eats nothing.
EatStep ==
    (pc = "update" /\ idx <= Len(creatures)
        /\ creatures[idx].is_alive /\ creatures'[idx].is_alive
        /\ 10 * (creatures[idx].energy - ENERGY_LOSS_PER_TICK) < 7 * Halves(MAX_ENERGY)) =>
       LET c == creatures[idx]
           d == creatures'[idx]
       IN IF PlantsAt(<<c.x, c.y>>) # {}
          THEN <<d.x, d.y>> = <<c.x, c.y>> /\ AtePlantAt(<<c.x, c.y>>, c, d)
          ELSE IF PlantsAt(<<d.x, d.y>>) # {}
          THEN AtePlantAt(<<d.x, d.y>>, c, d)
          ELSE /\ plants' = plants
               /\ grid' = grid
               /\ d.plants_eaten = c.plants_eaten
               /\ d.energy = c.energy - ENERGY_LOSS_PER_TICK

EatOnTheSpotOrOnArrival == [][EatStep]_vars

\* of two seeded adults on one tile, the first has eaten the plant of that
\* tile without moving and the second has stepped onto the next plant and eaten it
EatWitness ==
    /\ pc = "update" /\ idx = 3 /\ plants = <<>>
    /\ creatures[1].plants_eaten = 11 /\ creatures[1].age = 1
    /\ <<creatures[1].x, creatures[1].y>> = <<0, 0>>
    /\ creatures[2].plants_eaten = 11 /\ creatures[2].age = 1
    /\ <<creatures[2].x, creatures[2].y>> = <<1, 0>>
    /\ creatures[2].energy = 139

\* the resolution step is at a creature whose link names a partner in the
\* list, the two are of different gender, both can reproduce, and they are
\* within REPRODUCTION_RANGE
ResolvesEligiblePair ==
    /\ pc = "repro" /\ idx <= Len(creatures)
    /\ creatures[idx].partner > 0
    /\ LET c == creatures[idx]
           q == creatures[c.partner]
       IN /\ can_reproduce(c) /\ can_reproduce(q)
          /\ c.gender # q.gender
          /\ Manhattan(c.x, c.y, q.x, q.y) <= REPRODUCTION_RANGE

\* what a reproduction does to a parent
ParentPaid(c, d) ==
    /\ d.plants_eaten = c.plants_eaten - PLANTS_TO_REPRODUCE
    /\ d.plants_eaten >= 0
    /\ d.reproduction_cooldown = 50
    /\ d.offspring_count = c.offspring_count + 1

\* the creatures the step has appended are Newborns as constructed
AppendedNewborns ==
    /\ Len(creatures') >= Len(creatures)
    /\ \A k \in Len(creatures) + 1 .. Len(creatures') :
          /\ creatures'[k].life_stage = "newborn"
          /\ creatures'[k].age = 0
          /\ creatures'[k].is_alive
          /\ creatures'[k].plants_eaten = 0

BothParentsPaid ==
    LET p == creatures[idx].partner
    IN /\ ParentPaid(creatures[idx], creatures'[idx])
       /\ ParentPaid(creatures[p], creatures'[p])

\* C15 as stated: resolving an eligible pair puts between 1 and 3 new
\* Newborns into World.creatures, takes PLANTS_TO_REPRODUCE plants from each
\* parent and sets each parent's cooldown to 50.
OffspringAsStatedStep ==
    ResolvesEligiblePair =>
       /\ Len(creatures') - Len(creatures) \in 1 .. 3
       /\ AppendedNewborns
       /\ BothParentsPaid

OffspringAsStated == [][OffspringAsStatedStep]_vars

\* C15, amended: resolving an eligible pair creates between 1 and 3 Newborns
\* of which World.add_creature lets in only those that fit under
\* max_creatures, none when the list is full; each parent's plants_eaten
\* falls by exactly PLANTS_TO_REPRODUCE and each parent's cooldown is set to 50.
OffspringUpToCapacityStep ==
    ResolvesEligiblePair =>
       /\ \E num_offspring \in 1 .. 3 :
             Len(creatures') = Min(Len(creatures) + num_offspring, max_creatures)
       /\ AppendedNewborns
       /\ BothParentsPaid

OffspringUpToCapacity == [][OffspringUpToCapacityStep]_vars

\* in a list full of live creatures a pair has reproduced and no offspring has come in
OffspringDroppedWitness ==
    /\ pc = "repro"
    /\ Len(creatures) = max_creatures
    /\ \A i \in CreatureIdx :
          creatures[i].is_alive /\ creatures[i].life_stage = "adult" /\ creatures[i].age >= 1
    /\ \E i, j \in CreatureIdx :
          /\ i # j
          /\ creatures[i].reproduction_cooldown = reproduction_cooldown_max
          /\ creatures[j].reproduction_cooldown = reproduction_cooldown_max
          /\ creatures[i].plants_eaten = 2
          /\ creatures[j].plants_eaten = 2

\* what a reproduction takes from and gives to a creature
Resources(c) == <<c.plants_eaten, c.reproduction_cooldown, c.offspring_count>>

\* C16: symmetric links are resolved once. When the resolution step comes to
\* the first of two creatures that hold links to each other, the pair
\* reproduces there: one batch of offspring, each parent charged once. When
\* it comes to a creature whose pair has been resolved in this call, nothing
\* is created and nobody is charged. This is so whichever of the two stands
\* first in World.creatures.
DedupStep ==
    (pc = "repro" /\ idx <= Len(creatures) /\ creatures[idx].partner > 0) =>
       LET p == creatures[idx].partner
       IN /\ creatures[p].partner = idx =>
                /\ {idx, p} \notin processed_pairs
                /\ {idx, p} \in processed_pairs'
                /\ creatures'[idx].offspring_count = creatures[idx].offspring_count + 1
                /\ creatures'[p].offspring_count = creatures[p].offspring_count + 1
                /\ creatures'[idx].plants_eaten
                      = creatures[idx].plants_eaten - PLANTS_TO_REPRODUCE
                /\ creatures'[p].plants_eaten
                      = creatures[p].plants_eaten - PLANTS_TO_REPRODUCE
                /\ Len(creatures') <= Len(creatures) + 3
          /\ {idx, p} \in processed_pairs =>
                /\ Len(creatures') = Len(creatures)
                /\ \A j \in CreatureIdx : Resources(creatures'[j]) = Resources(creatures[j])

\* while the resolution runs, the members of a resolved pair have been charged
ResolvedPairsCharged ==
    pc = "repro" =>
       \A pair \in processed_pairs : \A j \in pair :
          /\ j \in CreatureIdx
          /\ creatures[j].reproduction_cooldown = reproduction_cooldown_max

RevalidateStep ==
    (pc = "repro" /\ idx <= Len(creatures)) =>
       LET reproduced ==
              \/ Len(creatures') # Len(creatures)
              \/ \E j \in CreatureIdx : Resources(creatures'[j]) # Resources(creatures[j])
       IN /\ reproduced => ResolvesEligiblePair
          /\ \A j \in CreatureIdx : Vitals(creatures'[j]) = Vitals(creatures[j]) \/ reproduced

RevalidatedAtResolution == [][RevalidateStep]_vars

\* a male recorded a link to a female that then died of old age in the same
\* tick; the resolution has passed him and left him uncharged, without offspring
RevalidatedWitness ==
    /\ pc = "repro" /\ idx = 2 /\ Len(creatures) = 2
    /\ creatures[1].gender = "male" /\ creatures[1].age = 3
    /\ creatures[1].partner = 0
    /\ Resources(creatures[1]) = <<12, 0, 0>>
    /\ creatures[2].gender = "female" /\ ~creatures[2].is_alive
    /\ creatures[2].age = MAX_AGE /\ creatures[2].plants_eaten = 13
    /\ <<creatures[1].x, creatures[1].y>> = <<creatures[2].x, creatures[2].y>>

\* C18: a pending-partner link is a same-tick record: when update_creatures
\* has returned, no creature of World.creatures carries a link.
NoLinkAfterTick ==
    pc = "idle" => \A i \in CreatureIdx : creatures[i].partner = 0

\* C19: when an update_creatures call has returned, World.creatures holds no
\* creature with is_alive = FALSE.
NoDeadAfterTick ==
    (pc = "idle" /\ ticks_run >= 1) => \A i \in CreatureIdx : creatures[i].is_alive

\* C20: with the plant count at or above max_plants, attempt_spawn returns
\* FALSE whatever tile it would draw, and leaves World.plants and every tile
\* as they are; the step changes neither the creature list nor the tick counter.
SpawnRefusedAtCapacity ==
    Len(plants) >= max_plants =>
       \A selected_tile \in Cells :
          attempt_spawn(grid, plants, selected_tile)
             = [grid |-> grid, plants |-> plants, ok |-> FALSE]

SpawnAtCapacityStep ==
    (Len(plants) >= max_plants /\ AttemptSpawn) => UNCHANGED vars

SpawnNoOpAtCapacity == [](SpawnRefusedAtCapacity) /\ [][SpawnAtCapacityStep]_vars

\* the plant list is full while a free fertile tile would be eligible, in a
\* world with creatures whose tick counter has advanced
SpawnNoOpWitness ==
    /\ pc = "idle"
    /\ Len(plants) >= max_plants
    /\ eligible_tiles(grid) # {}
    /\ Len(creatures) >= 1
    /\ simulation_ticks >= 1

\* the unoccupied Land tiles, which are the tiles World.add_plant accepts
FreeLand == {cell \in Cells : grid[cell].kind = "land" /\ ~grid[cell].has_plant}

\* C21: the spawner's and the world's checks agree. Between two handlers,
\* whatever tile the weighted draw selects, attempt_spawn returns TRUE exactly
\* when the plant count is below max_plants and an unoccupied Land tile (whose
\* probability is above 0) exists; when it returns TRUE exactly one plant was
\* appended, on the selected tile, which was an unoccupied Land tile, and only
\* that tile's flag changed;
\* when no tile is eligible it returns FALSE and changes nothing.
SpawnerAgreesWithWorld ==
    pc = "idle" =>
    LET eligible == eligible_tiles(grid)
        free == FreeLand
    IN /\ eligible = free
       /\ \A selected_tile \in (IF eligible = {} THEN Cells ELSE eligible) :
             LET r == attempt_spawn(grid, plants, selected_tile) IN
             /\ r.ok <=> (Len(plants) < max_plants /\ free # {})
             /\ r.ok =>
                   /\ selected_tile \in free
                   /\ r.plants = Append(plants, Plant(selected_tile[1], selected_tile[2]))
                   /\ r.grid = [grid EXCEPT ![selected_tile].has_plant = TRUE]
             /\ ~r.ok => r.grid = grid /\ r.plants = plants

\* between two handlers a step that adds a plant, attempt_spawn's included,
\* appends exactly one, below capacity, on a tile that was an unoccupied Land
\* tile and whose flag alone changes; a step that leaves the plant list as
\* it is leaves every tile as it is
SpawnerStep ==
    /\ (pc = "idle" /\ Len(plants') > Len(plants)) =>
          /\ Len(plants) < max_plants
          /\ Len(plants') = Len(plants) + 1
          /\ SubSeq(plants', 1, Len(plants)) = plants
          /\ LET p == plants'[Len(plants')] IN
                /\ <<p.x, p.y>> \in FreeLand
                /\ grid' = [grid EXCEPT ![<<p.x, p.y>>].has_plant = TRUE]
    /\ (pc = "idle" /\ pc' = "idle" /\ plants' = plants) => grid' = grid

SpawnerAgrees == [](SpawnerAgreesWithWorld) /\ [][SpawnerStep]_vars

\* one plant short of capacity with a free fertile tile left, after a tick
\* with creatures: the next attempt_spawn succeeds
SpawnerAgreesWitness ==
    /\ pc = "idle"
    /\ Len(plants) = max_plants - 1
    /\ Cardinality(FreeLand) >= 2
    /\ Len(creatures) >= 1
    /\ ticks_run >= 1

\* C22: FertilityBasedStrategy returns 0 for every tile that cannot support a
\* plant (any Water tile, any Land tile with has_plant = TRUE) and otherwise
\* min(base_probability * (1 + fertility * fertility_multiplier), 1.0); with
\* base probability 0.08 and multiplier 3.0 an unoccupied Land tile of
\* fertility 1.0 gets 0.32.
FertilityFormula ==
    probe.called =>
       LET t == probe.tile
           p == probe.fertility_based
       IN /\ (t.kind = "water" \/ t.has_plant) => p = 0
          /\ (t.kind = "land" /\ ~t.has_plant) =>
                /\ 10 * p = Min(probe.base * (10 + t.fertility * probe.mult), 100000)
                /\ (probe.base = 800 /\ probe.mult = 3 /\ t.fertility = 10) => p = 3200

\* the shipped configuration on a free Land tile of fertility 1.0, and a
\* configuration under which the clamp to 1.0 acts
FertilityFormulaWitness ==
    /\ probe.called
    /\ probe.tile = LandTile(10)
    /\ \/ probe.base = BASE_SPAWN_PROBABILITY /\ probe.mult = FERTILITY_SPAWN_MULTIPLIER
             /\ probe.fertility_based = 3200
       \/ probe.base = 3000 /\ probe.mult = 5 /\ probe.fertility_based = 10000

\* C23: every strategy returns a probability in [0, 1] for every tile under
\* every configured base probability and fertility multiplier.
ProbabilityInUnitRange ==
    probe.called =>
       /\ probe.fertility_based \in 0 .. 10000
       /\ probe.water_proximity \in 0 .. 10000

\* the additions World.add_plant refuses
PlantRejected(xy) ==
    \/ Len(plants) >= max_plants
    \/ xy \notin Cells
    \/ grid[xy].kind = "water"
    \/ grid[xy].has_plant

\* C24: a rejected addition returns FALSE and changes nothing. add_plant
\* returns FALSE, with the plant list and every tile as they were, when the
\* plant count is at max_plants or the target tile is Water, occupied or
\* outside the grid; add_creature returns FALSE, with the creature list as it
\* was, when the creature count is at max_creatures. Neither has an error outcome.
RejectedReturnsFalse ==
    /\ \A xy \in PlantInputs :
          LET r == add_plant(grid, plants, Plant(xy[1], xy[2])) IN
          /\ r.ok \in BOOLEAN
          /\ PlantRejected(xy) <=> ~r.ok
          /\ PlantRejected(xy) => r.grid = grid /\ r.plants = plants
    /\ \A c \in SeedCreatures :
          /\ add_creature_ok(creatures, c) <=> Len(creatures) < max_creatures
          /\ Len(creatures) >= max_creatures => add_creature(creatures, c) = creatures

\* between two handlers, while every add_plant would be rejected no step
\* adds a plant or marks a tile, and while the creature list is full no step
\* changes it
RejectedStep ==
    /\ (pc = "idle" /\ \A xy \in PlantInputs : PlantRejected(xy)) =>
          /\ Len(plants') <= Len(plants)
          /\ \A cell \in Cells : grid'[cell].has_plant => grid[cell].has_plant
    /\ (pc = "idle" /\ pc' = "idle" /\ Len(creatures) >= max_creatures) =>
          creatures' = creatures

RejectedAdditions == [](RejectedReturnsFalse) /\ [][RejectedStep]_vars

\* both lists are full and a free Land tile is left: every addition is
\* refused for capacity alone
RejectedAdditionsWitness ==
    /\ pc = "idle"
    /\ Len(plants) = max_plants
    /\ Len(creatures) = max_creatures
    /\ \E cell \in Cells : can_support_plant(grid[cell])

\* C25: get_tile returns None for every coordinate outside the grid (x < 0,
\* y < 0, x >= width, y >= height) and for any coordinate when the grid is
\* empty, and the tile stored at grid[y][x] for every coordinate inside it.
GetTileTotal ==
    probe.called =>
       LET outside == \/ probe.x < 0 \/ probe.y < 0
                      \/ probe.x >= GRID_WIDTH \/ probe.y >= GRID_HEIGHT
       IN /\ (outside \/ grid = EmptyGrid) => probe.tile = None
          /\ (~outside /\ grid # EmptyGrid) =>
                /\ probe.tile = grid[<<probe.x, probe.y>>]
                /\ probe.tile.kind \in {"water", "land"}

\* get_tile has answered None for the cell left of the first column of a set
\* terrain that holds a plant
GetTileWitness ==
    /\ probe.called
    /\ grid # EmptyGrid
    /\ Len(plants) = 1
    /\ probe.x = -1 /\ probe.y = 0
    /\ probe.tile = None

\* the cells of the map under generation, its Water cells and its Land cells
TerrainCells == MapCells(terrain.width, terrain.height)
TerrainWater == {cell \in TerrainCells : terrain.heightmap[cell] < SEA_LEVEL}
TerrainLand == TerrainCells \ TerrainWater

\* C28: in every generated grid every Land tile's final fertility lies
\* between MIN_FERTILITY and MAX_FERTILITY, whatever the arrangement of Water
\* and Land.
FertilityWithinBounds ==
    terrain.stage = "tiles" =>
       \A cell \in TerrainLand :
          LET fertility == TileAt(terrain.grid, cell[1], cell[2]).fertility
          IN /\ ~FloatLess(fertility, MIN_FERTILITY)
             /\ ~FloatLess(MAX_FERTILITY, fertility)

\* 0.9, which is MAX_FERTILITY less a tenth
NearMaxFertility == <<921, 40265318, 26843648>>

\* C29: in every generated grid a Land tile next to a Water tile (one step to
\* the left, right, top or bottom) has a fertility within a tenth of MAX_FERTILITY.
ShoreNearMaxFertility ==
    terrain.stage = "tiles" =>
       \A cell \in TerrainLand :
          (\E w \in TerrainWater : Manhattan(cell[1], cell[2], w[1], w[2]) = 1) =>
             ~FloatLess(TileAt(terrain.grid, cell[1], cell[2]).fertility, NearMaxFertility)

\* the squared Euclidean distance from a cell to its nearest Water cell
WaterDistance2(cell) ==
    MinOf({(cell[1] - w[1]) * (cell[1] - w[1]) + (cell[2] - w[2]) * (cell[2] - w[2]) :
              w \in TerrainWater})

\* C30: before smoothing, fertility decays monotonically with the distance to
\* water: of two Land cells of one map, the one nearer to its nearest Water
\* cell has a fertility at least as high as the other's.
UnsmoothedMonotone ==
    (terrain.stage = "fertility" /\ TerrainWater # {}) =>
       LET distance2 == [cell \in TerrainLand |-> WaterDistance2(cell)]
       IN \A a, b \in TerrainLand :
             distance2[a] < distance2[b] =>
                ~FloatLess(terrain.unsmoothed[a], terrain.unsmoothed[b])

\* C26: terrain generation rejects invalid dimensions: a call with a
\* non-positive width or height ends in an error and returns no grid.
RejectsInvalidDimensions ==
    \A i \in 1 .. Len(terrain) :
       (terrain[i].width <= 0 \/ terrain[i].height <= 0) =>
          terrain[i].outcome.kind # "grid"

\* C27: terrain generation is deterministic: two generate_terrain calls with
\* the same width and height on one TerrainGeneratorFactory, hence with one
\* seed and one configuration, return the same grid, kind and fertility
\* equal at every coordinate.
SameArgumentsSameGrid ==
    \A i, j \in 1 .. Len(terrain) :
       (terrain[i].width = terrain[j].width /\ terrain[i].height = terrain[j].height) =>
          terrain[i].outcome = terrain[j].outcome

\* C31: the provisional and the final grid have exactly height rows of width
\* tiles, the tile at grid[y][x] carries the coordinates (x, y) and is Water
\* if and only if the eroded height of its cell is below the sea level and
\* Land otherwise, so the Water and the Land tiles together number
\* width * height; the final grid classifies every cell as the provisional
\* grid did.
TilesOfKind(kind) ==
    {cell \in TerrainCells : TileAt(terrain.grid, cell[1], cell[2]).kind = kind}

GridShapeAndClassification ==
    terrain.stage \in {"fertility", "tiles"} =>
       /\ Len(terrain.grid) = terrain.height
       /\ \A row \in 1 .. terrain.height : Len(terrain.grid[row]) = terrain.width
       /\ \A cell \in TerrainCells :
             LET tile == TileAt(terrain.grid, cell[1], cell[2])
             IN /\ tile.x = cell[1] /\ tile.y = cell[2]
                /\ tile.kind = "water" <=> terrain.heightmap[cell] < SEA_LEVEL
                /\ tile.kind = "land" <=> terrain.heightmap[cell] >= SEA_LEVEL
       /\ Cardinality(TilesOfKind("water")) + Cardinality(TilesOfKind("land"))
             = terrain.width * terrain.height

SameClassificationStep ==
    (terrain.stage = "fertility" /\ terrain'.stage = "tiles") =>
       \A cell \in TerrainCells :
          TileAt(terrain'.grid, cell[1], cell[2]).kind
             = TileAt(terrain.grid, cell[1], cell[2]).kind

GridClassified == [](GridShapeAndClassification) /\ [][SameClassificationStep]_vars

\* a final grid with Water below the sea level and Land exactly at it
GridClassifiedWitness ==
    /\ terrain.stage = "tiles"
    /\ TilesOfKind("water") # {}
    /\ \E cell \in TilesOfKind("land") : terrain.heightmap[cell] = SEA_LEVEL

\* C32: a Land cell whose every Water cell lies beyond the cutoff of the
\* distance search, and so every Land cell of a map without Water, ends with
\* the fertility MIN_FERTILITY in the final grid.
BeyondCutoff(cell) ==
    \A water \in TerrainWater :
       Abs(cell[1] - water[1]) + Abs(cell[2] - water[2]) > search_limit

UnreachableWaterMinFertility ==
    terrain.stage = "tiles" =>
       \A cell \in TerrainLand :
          BeyondCutoff(cell) =>
             TileAt(terrain.grid, cell[1], cell[2]).fertility = MIN_FERTILITY

\* C33: get_statistics reads the world without changing it, and in every
\* reachable state it reports plant_count = len(plants), creature_count = the
\* number of creatures with is_alive = male_count + female_count =
\* newborn_count + adult_count, and land_tiles + water_tiles = the number of
\* cells of the grid.
StatisticsConsistent ==
    LET stats == get_statistics(grid, plants, creatures)
        alive == {i \in 1 .. Len(creatures) : creatures[i].is_alive}
    IN /\ stats.plant_count = Len(plants)
       /\ stats.creature_count = Cardinality(alive)
       /\ stats.creature_count = stats.male_count + stats.female_count
       /\ stats.creature_count = stats.newborn_count + stats.adult_count
       /\ stats.land_tiles + stats.water_tiles = Cardinality(DOMAIN grid)

\* a dead creature is still in the list, beside a living one and a plant
StatisticsWitness ==
    /\ \E i \in 1 .. Len(creatures) : ~creatures[i].is_alive
    /\ \E i \in 1 .. Len(creatures) : creatures[i].is_alive
    /\ Len(plants) > 0

\* C34: the single step, handled while the simulation is initialized and
\* paused, advances the simulation by one step: the tick counter of the World
\* rises by one, and no timer is scheduled.
SingleStep ==
    (app.initialized /\ ~app.running /\ app'.steps = app.steps + 1) =>
       /\ simulation_ticks' = simulation_ticks + 1
       /\ app'.pending = {}

StepAdvancesOnce == [][SingleStep]_vars

\* C35: with the Start button enabled only while the simulation is not
\* running, at most one timer of each kind is pending at any time, and none
\* while the simulation is not running (after a pause or a restart every
\* timer is cancelled); while it is not running only a button changes the
\* World; and while update_creatures is under way no other callback or
\* handler runs.
TimersOfKind(callback) == {timer \in app.pending : timer.callback = callback}

OneTimerOfEachKind ==
    /\ \A callback \in Callbacks : Cardinality(TimersOfKind(callback)) <= 1
    /\ \A timer \in app.pending : timer.callback \in Callbacks
    /\ ~app.running => app.pending = {}

TimerStep ==
    /\ (~app.running /\ world' # world) => app'.buttons # app.buttons
    /\ (app.position # "none" /\ pc # "idle") =>
          app' = app /\ simulation_ticks' = simulation_ticks

TimersExclusive == [](OneTimerOfEachKind) /\ [][TimerStep]_vars

\* running again after ticks, a pause and a single step, with the three timers
\* pending
TimersExclusiveWitness ==
    /\ app.running /\ app.steps > 0 /\ app.tick_count > 0
    /\ \A callback \in Callbacks : Cardinality(TimersOfKind(callback)) = 1

\* C36: a creature that takes part in a successful reproduction had cooldown 0
\* and leaves it with cooldown reproduction_cooldown_max; the state update of
\* a creature that stays alive takes 1 off a positive cooldown, once in each
\* update_creatures call; nothing else changes a cooldown, which is never
\* below 0: the next successful reproduction of the creature is at least
\* reproduction_cooldown_max calls later.
CooldownInRange ==
    \A i \in CreatureIdx :
       creatures[i].reproduction_cooldown \in 0 .. reproduction_cooldown_max

CooldownOf(cs) == [k \in 1 .. Len(cs) |-> cs[k].reproduction_cooldown]

CooldownStep ==
    IF IsFilterStep
    THEN CooldownOf(creatures') = CooldownOf(SelectSeq(creatures, LAMBDA c : c.is_alive))
    ELSE \A j \in CreatureIdx :
            LET c == creatures[j]
                d == creatures'[j]
            IN /\ j <= Len(creatures')
               /\ IF pc = "update" /\ j = idx
                  THEN d.reproduction_cooldown =
                          IF d.is_alive /\ c.reproduction_cooldown > 0
                          THEN c.reproduction_cooldown - 1
                          ELSE c.reproduction_cooldown
                  ELSE IF d.offspring_count # c.offspring_count
                  THEN /\ pc = "repro"
                       /\ c.reproduction_cooldown = 0
                       /\ d.reproduction_cooldown = reproduction_cooldown_max
                  ELSE d.reproduction_cooldown = c.reproduction_cooldown

CooldownLaw == [](CooldownInRange) /\ [][CooldownStep]_vars

\* a parent one state update after its reproduction
CooldownLawWitness ==
    \E i \in CreatureIdx :
       /\ creatures[i].is_alive
       /\ creatures[i].offspring_count = 1
       /\ creatures[i].reproduction_cooldown = reproduction_cooldown_max - 1

\* C37: within one update_creatures call a creature takes part in at most one
\* successful reproduction, also when several creatures hold it as their
\* pending partner: it belongs to at most one pair resolved in the call, and
\* a step of the resolution raises its offspring_count by at most 1, lowers
\* its plants_eaten by at most PLANTS_TO_REPRODUCE, and charges it only while
\* it belongs to no resolved pair.
ResolvedPairsOf(j) == {pair \in processed_pairs : j \in pair}

OneResolvedPairEach ==
    pc = "repro" => \A j \in CreatureIdx : Cardinality(ResolvedPairsOf(j)) <= 1

OneReproductionStep ==
    (pc = "repro" /\ idx <= Len(creatures)) =>
       \A j \in CreatureIdx :
          LET c == creatures[j]
              d == creatures'[j]
          IN /\ d.offspring_count \in {c.offspring_count, c.offspring_count + 1}
             /\ d.plants_eaten >= c.plants_eaten - PLANTS_TO_REPRODUCE
             /\ d.plants_eaten <= c.plants_eaten
             /\ Resources(d) # Resources(c) =>
                   /\ ResolvedPairsOf(j) = {}
                   /\ \E pair \in processed_pairs' \ processed_pairs : j \in pair
                   /\ d.offspring_count = c.offspring_count + 1

OneReproductionPerCall == [](OneResolvedPairEach) /\ [][OneReproductionStep]_vars

\* two males held the same female as their pending partner: the resolution
\* is over, she and the first male were charged once, the second male not
OneReproductionWitness ==
    /\ pc = "repro" /\ idx = 4 /\ Len(creatures) = 3
    /\ processed_pairs = {{1, 3}}
    /\ creatures[1].gender = "male" /\ creatures[2].gender = "male"
    /\ creatures[3].gender = "female"
    /\ creatures[1].offspring_count = 1 /\ creatures[3].offspring_count = 1
    /\ creatures[2].offspring_count = 0 /\ creatures[2].plants_eaten = 12
    /\ creatures[2].partner = 0

\* C38: a plant is eaten at most once and every meal removes exactly one
\* plant of World.plants: a step of the update loop raises plants_eaten of
\* the creature being updated by 0 or 1 and of no other creature, a meal
\* takes the one plant at the creature's cell out of the list, a step
\* without a meal leaves the list alone, and no step outside the update loop
\* raises any plants_eaten.
MealsOf(c, d) == d.plants_eaten - c.plants_eaten

EatenOnceStep ==
    IF pc = "update" /\ idx <= Len(creatures)
    THEN LET c == creatures[idx]
             d == creatures'[idx]
         IN /\ Len(creatures') = Len(creatures)
            /\ MealsOf(c, d) \in {0, 1}
            /\ \A j \in CreatureIdx \ {idx} :
                  creatures'[j].plants_eaten = creatures[j].plants_eaten
            /\ Len(plants') = Len(plants) - MealsOf(c, d)
            /\ IF MealsOf(c, d) = 1
               THEN \E i \in PlantsAt(<<d.x, d.y>>) : plants' = RemoveAt(plants, i)
               ELSE plants' = plants
    ELSE IsFilterStep \/
         \A j \in CreatureIdx :
            j <= Len(creatures') /\ creatures'[j].plants_eaten <= creatures[j].plants_eaten

PlantsEatenOnce == [][EatenOnceStep]_vars

\* two hungry creatures started the call on the cell <<0, 0>> with one plant
\* in reach: the first has eaten it, the second found none and has not
PlantsEatenOnceWitness ==
    /\ pc = "update" /\ idx = 3 /\ Len(creatures) = 2
    /\ plants = <<>>
    /\ creatures[1].age = 1 /\ creatures[1].plants_eaten = 11
    /\ creatures[2].age = 1 /\ creatures[2].plants_eaten = 10
    /\ creatures[2].is_alive

\* C39: after World.clear the plant and creature lists and the grid are
\* empty, simulation_ticks is 0 and no tile of the former grid has its
\* has_plant flag set; on the cleared world get_statistics gives zeros,
\* get_tile gives None for every coordinate, and attempt_spawn and add_plant
\* return False and change nothing; the world stays so until the next start.
IsClearStep == app.buttons.restart /\ ~app'.buttons.restart /\ app.has_world

Refused(r, g, ps) == r = [grid |-> g, plants |-> ps, ok |-> FALSE]

ClearStep ==
    IsClearStep =>
       /\ plants' = <<>> /\ creatures' = <<>>
       /\ grid' = EmptyGrid /\ simulation_ticks' = 0
       /\ DOMAIN terrain' = DOMAIN grid
       /\ \A cell \in DOMAIN grid :
             /\ ~terrain'[cell].has_plant
             /\ terrain'[cell] = [grid[cell] EXCEPT !.has_plant = FALSE]
       /\ get_statistics(grid', plants', creatures') = NoStatistics
       /\ \A xy \in ProbeCoordinates : get_tile(grid', xy[1], xy[2]) = None
       /\ \A cell \in Cells : Refused(attempt_spawn(grid', plants', cell), grid', plants')
       /\ \A xy \in PlantInputs :
             Refused(add_plant(grid', plants', Plant(xy[1], xy[2])), grid', plants')

ClearedWorldStays ==
    (app.has_world /\ ~app.initialized) =>
       /\ plants = <<>> /\ creatures = <<>>
       /\ grid = EmptyGrid /\ simulation_ticks = 0

ClearedWorldEmpty == [](ClearedWorldStays) /\ [][ClearStep]_vars

\* the Restart button has cleared a world that had a terrain
ClearedWorldWitness ==
    /\ app.has_world /\ app.buttons = FreshButtons /\ ~app.initialized
    /\ terrain # None /\ \E cell \in DOMAIN terrain : terrain[cell].kind = "land"
    /\ grid = EmptyGrid /\ plants = <<>> /\ creatures = <<>>

\* C40: a generator constructed with seed 0 takes TERRAIN_SEED: its seed
\* attribute is TERRAIN_SEED and each of its generate_terrain calls gives
\* exactly what the same calls give on a generator constructed with
\* TERRAIN_SEED; every other seed is kept as given.
RECURSIVE Replayed(_, _)
ReplayedAfter(r, calls) == <<r.outcome>> \o Replayed(r.factory, calls)

Replayed(f, calls) ==
    IF calls = <<>> THEN <<>>
    ELSE ReplayedAfter(generate_terrain(f, Head(calls).width, Head(calls).height),
                       Tail(calls))

OutcomesOf(calls) == [i \in 1 .. Len(calls) |-> calls[i].outcome]

SeedZeroIsTerrainSeed ==
    /\ factory.seed = IF probe.seed = 0 THEN TERRAIN_SEED ELSE probe.seed
    /\ probe.seed = 0 =>
          OutcomesOf(terrain) = Replayed(TerrainGeneratorFactory(TERRAIN_SEED), terrain)

\* a generator constructed with seed 0 has generated two 3 x 3 terrains
SeedZeroWitness ==
    /\ probe.seed = 0 /\ Len(terrain) = MaxCalls
    /\ \A i \in 1 .. MaxCalls :
          terrain[i].width = MaxTerrainSize /\ terrain[i].height = MaxTerrainSize

====
